---- MODULE Spec2Model ----
(***************************************************************************)
(* waybar_weather: the domain value types (src/domain/types.rs), the       *)
(* API-to-domain conversion (src/api/models.rs), the client, the formatter *)
(* and main as a state machine.                                            *)
(*                                                                         *)
(* Every operation of the program is a synchronous function call, so a     *)
(* state is one call: the operation invoked (op), its arguments (args) and *)
(* what it produced (ret).  Text is a sequence of one-character strings,   *)
(* so that splitting, trimming, parsing and formatting are computed the    *)
(* way the code computes them.  A float is held in tenths (185 is 18.5).   *)
(***************************************************************************)
EXTENDS Integers, Sequences, FiniteSets, TLC

VARIABLES op, args, ret

vars == <<op, args, ret>>

(***************************************************************************)
(* Bounds of the model.                                                    *)
(***************************************************************************)
\* how far around each boundary value the raw integers are drawn
Spread == 1
\* longest list of hourly entries handed to an operation
MaxHours == 2
\* how many fields of a baseline document are varied at once
MaxDeviations == 2

(***************************************************************************)
(* Machine integers.                                                       *)
(***************************************************************************)
\* TLC's integers are 32-bit signed, so u32::MAX itself cannot be written.  The
\* machine words are modelled at half their width: u32 as 0..2^16-1 and i32 as
\* -2^15..2^15-1.  Every constant the code compares against (500, 1100, 55, 23)
\* lies far inside both widths.
U32Max == 65535
I32Max == 32767
I32Min == -32768

\* `x as u32` on a float: saturating, negative values give 0
AsU32(x) == IF x < 0 THEN 0 ELSE IF x > U32Max THEN U32Max ELSE x

\* the fraction dropped instead of rounded: what C23 rules out
RoundTowardZero(t) == IF t >= 0 THEN t \div 10 ELSE -((-t) \div 10)

\* `x as i32` on a float: saturating at both ends
AsI32(x) == IF x < I32Min THEN I32Min ELSE IF x > I32Max THEN I32Max ELSE x

\* f64::round on a value held in tenths: nearest integer, halves away from zero
Round(t) == IF t >= 0 THEN (t + 5) \div 10 ELSE -((5 - t) \div 10)

Min(a, b) == IF a <= b THEN a ELSE b

\* F applied to the value of v, with v evaluated once
Eval(v, F(_)) == CHOOSE r \in {F(x) : x \in {v}} : TRUE

(***************************************************************************)
(* Results: Ok(value), Err(chain of messages, outermost context first),    *)
(* or a panic of the process.                                              *)
(***************************************************************************)
Ok(v) == [kind |-> "ok", val |-> v]
Err(msg) == [kind |-> "err", chain |-> <<msg>>]
Panic(msg) == [kind |-> "panic", msg |-> msg]
IsOk(r) == r.kind = "ok"
IsErr(r) == r.kind = "err"
IsPanic(r) == r.kind = "panic"

\* anyhow's .context / .with_context: wraps an error, leaves a value alone
Context(r, msg) ==
    Eval(r, LAMBDA x : IF IsErr(x) THEN [kind |-> "err", chain |-> <<msg>> \o x.chain] ELSE x)

\* the ? operator: the rest of the function runs on the value, anything else
\* is returned at once
AndThen(r, F(_)) == Eval(r, LAMBDA x : IF IsOk(x) THEN F(x.val) ELSE x)

\* Option: None is the empty sequence, Some(v) the one-element sequence
None == <<>>
Some(v) == <<v>>
IsSome(o) == Len(o) = 1
Unwrap(o) == o[1]

(***************************************************************************)
(* Range-validated scalars.                                                *)
(***************************************************************************)
TempMin == -40
TempMax == 55
HumidityMin == 0
HumidityMax == 100
PressureMin == 800
PressureMax == 1100
WindMin == 0
WindMax == 500

\* validate with the upper comparison left out: what C1 rules out
ValidateLowerOnly(lo, hi, value) ==
    IF value < lo THEN Err("outside valid range") ELSE Ok(value)

\* validate with both ends of the range excluded: what C2 rules out
ValidateExclusive(lo, hi, value) ==
    IF value <= lo \/ value >= hi THEN Err("outside valid range") ELSE Ok(value)

\* RangeValidated::validate
Validate(lo, hi, value) ==
    IF value < lo \/ value > hi THEN Err("outside valid range") ELSE Ok(value)

\* RangeValidatedValue::new for each range; value() is the stored number
TemperatureNew(v) == Validate(TempMin, TempMax, v)
PressureNew(p) == Validate(PressureMin, PressureMax, p)
\* f32 has a value that is no number; among the tenths it is held as a value no
\* number of the model reaches
NaN == -1000000000

\* `<` on f32: false whenever an operand is NaN
FloatLess(a, b) == a # NaN /\ b # NaN /\ a < b

\* humidity is a float, held in tenths of a percent: validate's two comparisons
\* are the ones of f32
HumidityNew(h10) ==
    IF FloatLess(h10, HumidityMin * 10) \/ FloatLess(HumidityMax * 10, h10)
    THEN Err("outside valid range")
    ELSE Ok(h10)

\* the quotient rounded up: what C29 rules out
CeilDiv(a, b) == (a + b - 1) \div b

\* `/` on i32: the quotient truncated toward zero
TruncDiv(a, b) == IF a >= 0 THEN a \div b ELSE -((-a) \div b)

\* Humidity::as_int: the percentage, held in tenths, rounded
\* (`as i32` on NaN gives 0)
HumidityAsInt(h10) == IF h10 = NaN THEN 0 ELSE AsI32(Round(h10))

\* dew_point clamped to the lowest temperature instead of falling back: what C12 rules out
DewPointClamped(h10, temperature) ==
    LET dew_point == temperature - TruncDiv(100 - HumidityAsInt(h10), 5)
    IN  IF dew_point < TempMin THEN TempMin ELSE IF dew_point > TempMax THEN TempMax ELSE dew_point

\* Humidity::dew_point: Temperature::new(dew_point).unwrap_or(*temperature)
DewPoint(h10, temperature) ==
    LET dew_point == temperature - TruncDiv(100 - HumidityAsInt(h10), 5)
        made == TemperatureNew(dew_point)
    IN  IF IsOk(made) THEN made.val ELSE temperature

(***************************************************************************)
(* Text: a sequence of one-character strings.                              *)
(***************************************************************************)
Digits == <<"0", "1", "2", "3", "4", "5", "6", "7", "8", "9">>
Lower == <<"a", "b", "c", "d", "e", "f", "g", "h", "i", "j", "k", "l", "m", "n", "o", "p", "q", "r", "s", "t", "u", "v", "w", "x", "y", "z">>
Upper == <<"A", "B", "C", "D", "E", "F", "G", "H", "I", "J", "K", "L", "M", "N", "O", "P", "Q", "R", "S", "T", "U", "V", "W", "X", "Y", "Z">>

IsDigit(c) == \E i \in 1..10 : Digits[i] = c
DigitVal(c) == (CHOOSE i \in 1..10 : Digits[i] = c) - 1

\* the decimal digits of a natural number, as `{}` prints an unsigned integer
RECURSIVE NatChars(_)
NatChars(n) == IF n < 10 THEN <<Digits[n + 1]>> ELSE NatChars(n \div 10) \o <<Digits[(n % 10) + 1]>>

\* `{}` on a signed integer
IntChars(n) == IF n < 0 THEN <<"-">> \o NatChars(-n) ELSE NatChars(n)

\* char::to_uppercase on the letters of the model's alphabet
UpperChar(c) == IF \E i \in 1..26 : Lower[i] = c THEN Upper[CHOOSE i \in 1..26 : Lower[i] = c] ELSE c

\* str::to_uppercase
RECURSIVE ToUppercase(_)
ToUppercase(s) == IF s = <<>> THEN <<>> ELSE <<UpperChar(Head(s))>> \o ToUppercase(Tail(s))

IsWhitespace(c) == c \in {" ", "\t", "\n"}

\* str::trim: whitespace removed at both ends
RECURSIVE TrimStart(_)
TrimStart(s) == IF s # <<>> /\ IsWhitespace(Head(s)) THEN TrimStart(Tail(s)) ELSE s
RECURSIVE TrimEnd(_)
TrimEnd(s) == IF s # <<>> /\ IsWhitespace(s[Len(s)]) THEN TrimEnd(SubSeq(s, 1, Len(s) - 1)) ELSE s
Trim(s) == TrimEnd(TrimStart(s))

\* str::split(sep) collected: the pieces between separators, empty pieces kept
RECURSIVE SplitFrom(_, _, _)
SplitFrom(s, sep, cur) ==
    IF s = <<>> THEN <<cur>>
    ELSE IF Head(s) = sep THEN <<cur>> \o SplitFrom(Tail(s), sep, <<>>)
    ELSE SplitFrom(Tail(s), sep, Append(cur, Head(s)))
Split(s, sep) == SplitFrom(s, sep, <<>>)

\* does piece occur in text as a contiguous run
Contains(text, piece) ==
    \E i \in 1..(Len(text) - Len(piece) + 1) : SubSeq(text, i, i + Len(piece) - 1) = piece

RECURSIVE DigitsValue(_, _)
DigitsValue(s, acc) == IF s = <<>> THEN acc ELSE DigitsValue(Tail(s), acc * 10 + DigitVal(Head(s)))

\* str::parse::<u32>: an optional '+', then one or more digits, value at most u32::MAX
ParseU32(s) ==
    LET body == IF s # <<>> /\ Head(s) = "+" THEN Tail(s) ELSE s
    IN  IF body = <<>> \/ \E i \in 1..Len(body) : ~IsDigit(body[i]) THEN None
        ELSE Eval(DigitsValue(body, 0), LAMBDA n : IF n > U32Max THEN None ELSE Some(n))

(***************************************************************************)
(* WindSpeed and its category.                                             *)
(***************************************************************************)
KmH == <<" ", "k", "m", "/", "h">>
GustsOpen == <<" ", "(", "G", "u", "s", "t", "s", ":", " ">>
GustsClose == <<" ", "k", "m", "/", "h", ")">>
SpanOpen == <<"<", "s", "p", "a", "n", " ", "f", "o", "r", "e", "g", "r", "o", "u", "n", "d", "=", "\"">>
SpanMid == <<"\"", ">">>
SpanClose == <<"<", "/", "s", "p", "a", "n", ">">>

\* with_gusts rejecting gusts that are not strictly above sustained: what C3 rules out
WindSpeedWithGustsStrict(sustained, gusts) ==
    IF sustained > 500 \/ (IsSome(gusts) /\ Unwrap(gusts) > 500) THEN Err("outside valid range")
    ELSE IF IsSome(gusts) /\ Unwrap(gusts) <= sustained
    THEN Err("Wind gusts cannot be less than sustained wind")
    ELSE Ok([sustained |-> sustained, gusts |-> gusts])

\* WindSpeed::with_gusts: gusts is None or Some(g)
WindSpeedWithGusts(sustained, gusts) ==
    AndThen(Validate(WindMin, WindMax, sustained), LAMBDA s :
    AndThen(IF IsSome(gusts) THEN Validate(WindMin, WindMax, Unwrap(gusts)) ELSE Ok(None), LAMBDA g :
    IF IsSome(gusts) /\ Unwrap(gusts) < sustained
    THEN Err("Wind gusts cannot be less than sustained wind")
    ELSE Ok([sustained |-> sustained, gusts |-> gusts])))

\* build taking 0 for a sustained speed that was never set: what C21 rules out
BuilderBuildDefaultZero(b) ==
    WindSpeedWithGusts(IF IsSome(b.sustained) THEN Unwrap(b.sustained) ELSE 0, b.gusts)

\* WindSpeed::new
WindSpeedNew(sustained) == WindSpeedWithGusts(sustained, None)

\* WindSpeedBuilder::build on a builder whose two fields are None or Some
BuilderBuild(b) ==
    IF ~IsSome(b.sustained) THEN Err("Sustained wind speed is required")
    ELSE WindSpeedWithGusts(Unwrap(b.sustained), b.gusts)

\* WindSpeed::category: the match on the sustained speed
Category(w) ==
    IF w.sustained <= 19 THEN "Calm"
    ELSE IF w.sustained <= 50 THEN "ModerateBreezes"
    ELSE IF w.sustained <= 88 THEN "Gales"
    ELSE IF w.sustained <= 117 THEN "Storms"
    ELSE "Hurricane"

\* the gust match with every band starting one higher: what C4 rules out
GustCategoryShifted(gusts) ==
    IF gusts <= 20 THEN "Calm"
    ELSE IF gusts <= 51 THEN "ModerateBreezes"
    ELSE IF gusts <= 89 THEN "Gales"
    ELSE IF gusts <= 118 THEN "Storms"
    ELSE "Hurricane"

\* the match written out again inside format_colored, on the gust value
GustCategory(gusts) ==
    IF gusts <= 19 THEN "Calm"
    ELSE IF gusts <= 50 THEN "ModerateBreezes"
    ELSE IF gusts <= 88 THEN "Gales"
    ELSE IF gusts <= 117 THEN "Storms"
    ELSE "Hurricane"

\* WindSpeedCategory::color
CategoryColor(c) ==
    CASE c = "Calm" -> <<"#", "F", "F", "F", "F", "F", "F">>
      [] c = "ModerateBreezes" -> <<"#", "0", "0", "A", "A", "0", "0">>
      [] c = "Gales" -> <<"#", "F", "F", "A", "5", "0", "0">>
      [] c = "Storms" -> <<"#", "F", "F", "0", "0", "0", "0">>
      [] c = "Hurricane" -> <<"#", "9", "B", "3", "0", "F", "F">>

\* WindSpeed::color
Color(w) == CategoryColor(Category(w))

\* "<span foreground=\"{}\">{}</span>"
Span(color, n) == SpanOpen \o color \o SpanMid \o NatChars(n) \o SpanClose

\* WindSpeed::format_colored
FormatColored(w) ==
    IF IsSome(w.gusts)
    THEN Span(Color(w), w.sustained) \o KmH \o GustsOpen
         \o Span(CategoryColor(GustCategory(Unwrap(w.gusts))), Unwrap(w.gusts)) \o GustsClose
    ELSE Span(Color(w), w.sustained) \o KmH

\* WindSpeed::format_colored_compact
FormatColoredCompact(w) == Span(Color(w), w.sustained) \o KmH

\* Display leaving the gusts clause out when gusts equal sustained: what C5 rules out
WindSpeedDisplayWhenAbove(w) ==
    IF IsSome(w.gusts) /\ Unwrap(w.gusts) > w.sustained
    THEN NatChars(w.sustained) \o KmH \o GustsOpen \o NatChars(Unwrap(w.gusts)) \o GustsClose
    ELSE NatChars(w.sustained) \o KmH

\* impl Display for WindSpeed
WindSpeedDisplay(w) ==
    IF IsSome(w.gusts)
    THEN NatChars(w.sustained) \o KmH \o GustsOpen \o NatChars(Unwrap(w.gusts)) \o GustsClose
    ELSE NatChars(w.sustained) \o KmH

(***************************************************************************)
(* The time crate's parser, for the format descriptions the code uses.     *)
(* A format is a sequence of items; an item is a literal or a component.   *)
(***************************************************************************)
Lit(text) == [t |-> "lit", text |-> text]
Hour24Item == [t |-> "hour", repr12 |-> FALSE, pad |-> "zero"]
Hour12Item == [t |-> "hour", repr12 |-> TRUE, pad |-> "zero"]
Hour12NoPadItem == [t |-> "hour", repr12 |-> TRUE, pad |-> "none"]
MinuteItem == [t |-> "minute"]
PeriodItem == [t |-> "period"]
YearItem == [t |-> "year"]
MonthItem == [t |-> "month"]
DayItem == [t |-> "day"]

Unset == -1
NothingParsed ==
    [year |-> Unset, month |-> Unset, day |-> Unset, hour24 |-> Unset,
     hour12 |-> Unset, pm |-> Unset, minute |-> Unset, negyear |-> FALSE]

RECURSIVE LeadingDigits(_)
LeadingDigits(s) == IF s # <<>> /\ IsDigit(Head(s)) THEN 1 + LeadingDigits(Tail(s)) ELSE 0

\* n_to_m_digits: between lo and hi leading digits, as many as there are
TakeDigits(s, lo, hi) ==
    LET n == Min(LeadingDigits(s), hi)
    IN  IF n < lo THEN None
        ELSE Some([val |-> DigitsValue(SubSeq(s, 1, n), 0), rest |-> SubSeq(s, n + 1, Len(s))])

\* exactly_n_digits_padded: zero padding wants all the digits, no padding one or more
TakePadded(s, width, pad) == IF pad = "zero" THEN TakeDigits(s, width, width) ELSE TakeDigits(s, 1, width)

StartsWith(s, prefix) == Len(s) >= Len(prefix) /\ SubSeq(s, 1, Len(prefix)) = prefix
DropPrefix(s, prefix) == SubSeq(s, Len(prefix) + 1, Len(s))

\* one item of a format description consumed from the input: None, or the fields
\* parsed so far and the rest of the input
ParseItem(input, item, parsed) ==
    CASE item.t = "lit" ->
            IF StartsWith(input, item.text)
            THEN Some([parsed |-> parsed, rest |-> DropPrefix(input, item.text)]) ELSE None
      [] item.t = "hour" ->
            LET d == TakePadded(input, 2, item.pad)
            IN  IF ~IsSome(d) THEN None
                ELSE IF item.repr12
                     THEN IF Unwrap(d).val < 1 \/ Unwrap(d).val > 12 THEN None
                          ELSE Some([parsed |-> [parsed EXCEPT !.hour12 = Unwrap(d).val], rest |-> Unwrap(d).rest])
                     ELSE IF Unwrap(d).val > 23 THEN None
                          ELSE Some([parsed |-> [parsed EXCEPT !.hour24 = Unwrap(d).val], rest |-> Unwrap(d).rest])
      [] item.t = "minute" ->
            LET d == TakePadded(input, 2, "zero")
            IN  IF ~IsSome(d) \/ (IsSome(d) /\ Unwrap(d).val > 59) THEN None
                ELSE Some([parsed |-> [parsed EXCEPT !.minute = Unwrap(d).val], rest |-> Unwrap(d).rest])
      [] item.t = "period" ->
            IF StartsWith(input, <<"A", "M">>)
            THEN Some([parsed |-> [parsed EXCEPT !.pm = 0], rest |-> DropPrefix(input, <<"A", "M">>)])
            ELSE IF StartsWith(input, <<"P", "M">>)
            THEN Some([parsed |-> [parsed EXCEPT !.pm = 1], rest |-> DropPrefix(input, <<"P", "M">>)])
            ELSE None
      [] item.t = "year" ->
            LET neg == input # <<>> /\ Head(input) = "-"
                body == IF input # <<>> /\ Head(input) \in {"-", "+"} THEN Tail(input) ELSE input
                d == TakePadded(body, 4, "zero")
            IN  IF ~IsSome(d) THEN None
                ELSE Some([parsed |-> [parsed EXCEPT !.year = Unwrap(d).val, !.negyear = neg],
                           rest |-> Unwrap(d).rest])
      [] item.t = "month" ->
            LET d == TakePadded(input, 2, "zero")
            IN  IF ~IsSome(d) \/ (IsSome(d) /\ (Unwrap(d).val < 1 \/ Unwrap(d).val > 12)) THEN None
                ELSE Some([parsed |-> [parsed EXCEPT !.month = Unwrap(d).val], rest |-> Unwrap(d).rest])
      [] item.t = "day" ->
            LET d == TakePadded(input, 2, "zero")
            IN  IF ~IsSome(d) \/ (IsSome(d) /\ (Unwrap(d).val < 1 \/ Unwrap(d).val > 31)) THEN None
                ELSE Some([parsed |-> [parsed EXCEPT !.day = Unwrap(d).val], rest |-> Unwrap(d).rest])

\* the items in order; the whole input must be consumed
RECURSIVE ParseItems(_, _, _)
ParseItems(input, items, parsed) ==
    IF items = <<>> THEN (IF input = <<>> THEN Some(parsed) ELSE None)
    ELSE Eval(ParseItem(input, Head(items), parsed),
              LAMBDA step : IF ~IsSome(step) THEN None
                            ELSE ParseItems(Unwrap(step).rest, Tail(items), Unwrap(step).parsed))

\* the hour of the day with 12 o'clock read as written, AM or PM: what C17 rules out
TimeFromParsedTwelveAsWritten(p) ==
    LET hour == IF p.hour24 # Unset THEN p.hour24
                ELSE IF p.hour12 # Unset /\ p.pm = 0 THEN p.hour12
                ELSE IF p.hour12 # Unset /\ p.pm = 1 THEN (IF p.hour12 = 12 THEN 12 ELSE p.hour12 + 12)
                ELSE Unset
    IN  IF hour = Unset THEN None
        ELSE Some([hour |-> hour, minute |-> IF p.minute = Unset THEN 0 ELSE p.minute, second |-> 0])

\* TryFrom<Parsed> for Time: the hour of the day from what was parsed
TimeFromParsed(p) ==
    LET hour == IF p.hour24 # Unset THEN p.hour24
                ELSE IF p.hour12 # Unset /\ p.pm = 0 THEN (IF p.hour12 = 12 THEN 0 ELSE p.hour12)
                ELSE IF p.hour12 # Unset /\ p.pm = 1 THEN (IF p.hour12 = 12 THEN 12 ELSE p.hour12 + 12)
                ELSE Unset
    IN  IF hour = Unset THEN None
        ELSE Some([hour |-> hour, minute |-> IF p.minute = Unset THEN 0 ELSE p.minute, second |-> 0])

\* Time::parse(input, format)
TimeParse(input, items) ==
    Eval(ParseItems(input, items, NothingParsed),
         LAMBDA p : IF ~IsSome(p) THEN None ELSE TimeFromParsed(Unwrap(p)))

\* the fourth format with its hour read as an hour of the day, whatever the period
\* says: a format that disagrees with the first one, which C18 rules out
Format12NoPadAsHour24 ==
    <<[t |-> "hour", repr12 |-> FALSE, pad |-> "none"], Lit(<<":">>), MinuteItem, Lit(<<" ">>), PeriodItem>>

(***************************************************************************)
(* WeatherTime.                                                            *)
(***************************************************************************)
\* "[hour repr:12]:[minute] [period]"
Format12Space == <<Hour12Item, Lit(<<":">>), MinuteItem, Lit(<<" ">>), PeriodItem>>
\* "[hour]:[minute]"
Format24 == <<Hour24Item, Lit(<<":">>), MinuteItem>>
\* "[hour repr:12]:[minute][period]"
Format12NoSpace == <<Hour12Item, Lit(<<":">>), MinuteItem, PeriodItem>>
\* "[hour padding:none repr:12]:[minute] [period]"
Format12NoPad == <<Hour12NoPadItem, Lit(<<":">>), MinuteItem, Lit(<<" ">>), PeriodItem>>

\* the formats in the order WeatherTime::parse tries them
TimeFormats == <<Format12Space, Format24, Format12NoSpace, Format12NoPad>>

\* WeatherTime::parse: the first format that parses the trimmed text
\* one `if let Ok(time) = Time::parse(..) { return Ok(..) }` after another
RECURSIVE FirstFormat(_, _)
FirstFormat(trimmed, formats) ==
    IF formats = <<>> THEN Err("Unable to parse time")
    ELSE Eval(TimeParse(trimmed, Head(formats)),
              LAMBDA time : IF IsSome(time) THEN Ok(Unwrap(time))
                            ELSE FirstFormat(trimmed, Tail(formats)))

WeatherTimeParse(time_str) == Eval(Trim(time_str), LAMBDA trimmed : FirstFormat(trimmed, TimeFormats))

\* WeatherTime::hour24, minute, total_seconds
Hour24(t) == t.hour
Minute(t) == t.minute
TotalSeconds(t) == t.hour * 3600 + t.minute * 60 + t.second

(***************************************************************************)
(* Duration and Astronomy.                                                 *)
(***************************************************************************)
\* the number written without padding: what C26 rules out
Unpadded(n) == NatChars(n)

\* `{:02}` on a u32
Pad2(n) == IF n < 10 THEN <<"0">> \o NatChars(n) ELSE NatChars(n)

\* Duration::from_minutes, hours, minutes
DurationFromMinutes(minutes) == [total_minutes |-> minutes]
DurationHours(d) == d.total_minutes \div 60
DurationMinutes(d) == d.total_minutes % 60

\* Astronomy::new
AstronomyNew(sunrise, sunset) == [sunrise |-> sunrise, sunset |-> sunset]

\* day_length as the distance between the two times whichever comes first: what C13 rules out
DayLengthAbsolute(a) ==
    LET sunrise_seconds == TotalSeconds(a.sunrise)
        sunset_seconds == TotalSeconds(a.sunset)
    IN  DurationFromMinutes((IF sunset_seconds >= sunrise_seconds
                             THEN sunset_seconds - sunrise_seconds
                             ELSE sunrise_seconds - sunset_seconds) \div 60)

\* Astronomy::day_length
DayLength(a) ==
    LET sunrise_seconds == TotalSeconds(a.sunrise)
        sunset_seconds == TotalSeconds(a.sunset)
        day_length_seconds == IF sunset_seconds >= sunrise_seconds
                              THEN sunset_seconds - sunrise_seconds
                              ELSE (24 * 3600 - sunrise_seconds) + sunset_seconds
    IN  DurationFromMinutes(day_length_seconds \div 60)

\* solar_noon as the plain mean of the two times: what C14 rules out
SolarNoonPlainMean(a) ==
    LET solar_noon_seconds == (TotalSeconds(a.sunrise) + TotalSeconds(a.sunset)) \div 2
    IN  WeatherTimeParse(Pad2(solar_noon_seconds \div 3600) \o <<":">>
                         \o Pad2((solar_noon_seconds % 3600) \div 60))

\* Astronomy::solar_noon
SolarNoon(a) ==
    LET sunrise_seconds == TotalSeconds(a.sunrise)
        sunset_seconds == TotalSeconds(a.sunset)
        day_length == (24 * 3600 - sunrise_seconds) + sunset_seconds
        solar_noon_seconds == IF sunset_seconds >= sunrise_seconds
                              THEN sunrise_seconds + (sunset_seconds - sunrise_seconds) \div 2
                              ELSE (sunrise_seconds + day_length \div 2) % (24 * 3600)
        solar_noon_hours == solar_noon_seconds \div 3600
        solar_noon_minutes == (solar_noon_seconds % 3600) \div 60
    IN  WeatherTimeParse(Pad2(solar_noon_hours) \o <<":">> \o Pad2(solar_noon_minutes))

(***************************************************************************)
(* WindDirection, Location, WeatherCondition.                              *)
(***************************************************************************)
ValidDirections ==
    {<<"N">>,
     <<"N", "N", "E">>,
     <<"N", "E">>,
     <<"E", "N", "E">>,
     <<"E">>,
     <<"E", "S", "E">>,
     <<"S", "E">>,
     <<"S", "S", "E">>,
     <<"S">>,
     <<"S", "S", "W">>,
     <<"S", "W">>,
     <<"W", "S", "W">>,
     <<"W">>,
     <<"W", "N", "W">>,
     <<"N", "W">>,
     <<"N", "N", "W">>}

\* from_compass keeping the token as it was written: what C24 rules out
FromCompassAsWritten(compass) ==
    IF ToUppercase(compass) \in ValidDirections THEN Ok(compass)
    ELSE Err("Invalid compass direction")

\* WindDirection::from_compass: the upper-cased token must be one of the sixteen
FromCompass(compass) ==
    LET direction == ToUppercase(compass)
    IN  IF direction \in ValidDirections THEN Ok(direction)
        ELSE Err("Invalid compass direction")

\* impl Display for WindDirection: write!(f, "{}", self.direction) writes the
\* stored text and nothing else
WindDirectionDisplay(direction) == direction

Unknown == <<"U", "n", "k", "n", "o", "w", "n">>

\* Location::new replacing only the empty name: what C20 rules out
LocationNewEmptyOnly(name) == IF name = <<>> THEN Unknown ELSE name

\* Location::new
LocationNew(name) == IF Trim(name) = <<>> THEN Unknown ELSE name

\* Display for Location
LocationDisplay(location) == location

\* WeatherCondition::new
WeatherConditionNew(description) == description

(***************************************************************************)
(* LastUpdated: an instant.  Seconds since the Unix epoch pass 32 bits, so  *)
(* an i64 timestamp is held as whole days and seconds of the day:          *)
(* [days |-> d, secs |-> s] is d * 86400 + s, with s in 0..86399.          *)
(***************************************************************************)
IsLeap(y) == (y % 4 = 0 /\ y % 100 # 0) \/ y % 400 = 0
DaysInMonth(y, m) ==
    IF m = 2 THEN (IF IsLeap(y) THEN 29 ELSE 28)
    ELSE IF m \in {4, 6, 9, 11} THEN 30 ELSE 31

\* days from 1970-01-01 to the civil date y-m-d
DaysFromCivil(y, m, d) ==
    LET yy == IF m <= 2 THEN y - 1 ELSE y
        era == yy \div 400
        yoe == yy - era * 400
        mp == IF m > 2 THEN m - 3 ELSE m + 9
        doy == (153 * mp + 2) \div 5 + d - 1
        doe == yoe * 365 + yoe \div 4 - yoe \div 100 + doy
    IN  era * 146097 + doe - 719468

\* the years OffsetDateTime holds
YearMin == -9999
YearMax == 9999

\* LastUpdated::from_epoch: OffsetDateTime::from_unix_timestamp accepts the
\* timestamps from the first second of YearMin to the last second of YearMax
FromEpoch(epoch_seconds) ==
    IF \/ epoch_seconds.days < DaysFromCivil(YearMin, 1, 1)
       \/ epoch_seconds.days > DaysFromCivil(YearMax, 12, 31)
    THEN Err("Invalid timestamp")
    ELSE Ok(epoch_seconds)

\* "[year]-[month]-[day] [hour]:[minute]"
ApiFormat ==
    <<YearItem, Lit(<<"-">>), MonthItem, Lit(<<"-">>), DayItem, Lit(<<" ">>),
      Hour24Item, Lit(<<":">>), MinuteItem>>

\* LastUpdated::from_api_format: PrimitiveDateTime::parse, then assume_utc
FromApiFormat(api_string) ==
    Eval(ParseItems(api_string, ApiFormat, NothingParsed),
         LAMBDA p :
            LET q == Unwrap(p)
                year == IF q.negyear THEN -q.year ELSE q.year
            IN  IF ~IsSome(p) THEN Err("Failed to parse API timestamp")
                ELSE IF q.day > DaysInMonth(year, q.month) THEN Err("Failed to parse API timestamp")
                ELSE Ok([days |-> DaysFromCivil(year, q.month, q.day),
                         secs |-> q.hour24 * 3600 + q.minute * 60]))

\* the wind conversion handing the gusts to the builder whatever they are: what
\* C28 rules out
WindFromApiGustsAlways(wind_kph, gust_kph) ==
    Context(BuilderBuild([sustained |-> Some(AsU32(Round(wind_kph))),
                          gusts |-> Some(AsU32(Round(gust_kph)))]),
            "Invalid wind data")

\* the wind conversion keeping gusts that equal the sustained speed: what C6 rules out
WindFromApiAtOrAbove(wind_kph, gust_kph) ==
    LET sustained_wind == AsU32(Round(wind_kph))
        gust_wind == AsU32(Round(gust_kph))
    IN  IF gust_wind >= sustained_wind
        THEN Context(BuilderBuild([sustained |-> Some(sustained_wind), gusts |-> Some(gust_wind)]),
                     "Invalid wind data")
        ELSE Context(WindSpeedNew(sustained_wind), "Wind speed out of range")

(***************************************************************************)
(* The API conversion layer (src/api/models.rs).                           *)
(***************************************************************************)
\* the wind speed of a current block or an hourly entry: both round the two
\* floats to u32 and take the gusts path only when gusts exceed sustained
WindFromApi(wind_kph, gust_kph) ==
    LET sustained_wind == AsU32(Round(wind_kph))
        gust_wind == AsU32(Round(gust_kph))
    IN  IF gust_wind > sustained_wind
        THEN Context(BuilderBuild([sustained |-> Some(sustained_wind), gusts |-> Some(gust_wind)]),
                     "Invalid wind data")
        ELSE Context(WindSpeedNew(sustained_wind), "Wind speed out of range")

\* the time of an hourly entry read from the last piece of the text: what C19 rules out
HourTimeLastPiece(value) ==
    Eval(Split(value.time, " "),
         LAMBDA time_parts :
            IF Len(time_parts) < 1 THEN Err("Invalid time format")
            ELSE Context(WeatherTimeParse(time_parts[Len(time_parts)]), "Failed to parse time"))

\* the time of an hourly entry: the second space-separated piece of "date time"
HourTime(value) ==
    Eval(Split(value.time, " "),
         LAMBDA time_parts :
            IF Len(time_parts) < 2 THEN Err("Invalid time format")
            ELSE Context(WeatherTimeParse(time_parts[2]), "Failed to parse time"))

\* TryFrom<HourApi> for HourlyWeather: each field in the order of the code
HourlyFromApi(value) ==
    AndThen(HourTime(value), LAMBDA time :
    AndThen(Context(TemperatureNew(AsI32(Round(value.temp_c))), "Temperature out of range"),
            LAMBDA temperature :
    AndThen(WindFromApi(value.wind_kph, value.gust_kph), LAMBDA wind_speed :
    AndThen(Context(FromCompass(value.wind_dir), "Invalid wind direction"), LAMBDA wind_direction :
    Ok([time |-> time, temperature |-> temperature,
        condition |-> WeatherConditionNew(value.condition),
        wind_speed |-> wind_speed, wind_direction |-> wind_direction])))))

\* the string read first and the epoch only when the string is refused: what C11 rules out
LastUpdatedStringFirst(value) ==
    Eval(FromApiFormat(value.last_updated),
         LAMBDA parsed : IF IsOk(parsed) THEN parsed ELSE FromEpoch(value.last_updated_epoch))

\* from_epoch(..).or_else(|_| from_api_format(..)): the string is read only when
\* the epoch is refused
LastUpdatedFromApi(value) ==
    Eval(FromEpoch(value.last_updated_epoch),
         LAMBDA epoch : IF IsOk(epoch) THEN epoch ELSE FromApiFormat(value.last_updated))

\* TryFrom<CurrentApi> for CurrentWeather: each field in the order of the code
CurrentFromApi(value) ==
    AndThen(Context(LastUpdatedFromApi(value), "Failed to parse last updated timestamp"),
            LAMBDA last_updated :
    AndThen(Context(TemperatureNew(AsI32(Round(value.temp_c))), "Temperature out of range"),
            LAMBDA temperature :
    AndThen(Context(TemperatureNew(AsI32(Round(value.feelslike_c))),
                    "Feels like temperature out of range"),
            LAMBDA feels_like :
    AndThen(Context(HumidityNew(value.humidity * 10), "Humidity out of range"), LAMBDA humidity :
    AndThen(WindFromApi(value.wind_kph, value.gust_kph), LAMBDA wind_speed :
    AndThen(Context(PressureNew(AsU32(Round(value.pressure_mb))), "Pressure out of range"),
            LAMBDA pressure :
    AndThen(Context(FromCompass(value.wind_dir), "Invalid wind direction"), LAMBDA wind_direction :
    Ok([last_updated |-> last_updated, temperature |-> temperature, feels_like |-> feels_like,
        condition |-> WeatherConditionNew(value.condition), humidity |-> humidity,
        wind_speed |-> wind_speed, wind_direction |-> wind_direction,
        pressure |-> pressure]))))))))

\* TryFrom<AstroApi> for Astronomy
AstronomyFromApi(value) ==
    AndThen(Context(WeatherTimeParse(value.sunrise), "Failed to parse sunrise"), LAMBDA sunrise :
    AndThen(Context(WeatherTimeParse(value.sunset), "Failed to parse sunset"), LAMBDA sunset :
    Ok([sunrise |-> sunrise, sunset |-> sunset])))

\* a collect that leaves out the entries that fail to convert: what C9 rules out
RECURSIVE CollectHoursSkipping(_)
CollectHoursSkipping(hours) ==
    IF hours = <<>> THEN Ok(<<>>)
    ELSE Eval(HourlyFromApi(Head(hours)), LAMBDA first :
         AndThen(CollectHoursSkipping(Tail(hours)), LAMBDA others :
         Ok((IF IsOk(first) THEN <<first.val>> ELSE <<>>) \o others)))

\* collect::<Result<Vec<_>>>: the converted entries, or the first error in list order
RECURSIVE CollectHours(_)
CollectHours(hours) ==
    IF hours = <<>> THEN Ok(<<>>)
    ELSE AndThen(HourlyFromApi(Head(hours)), LAMBDA first :
         AndThen(CollectHours(Tail(hours)), LAMBDA others :
         Ok(<<first>> \o others)))

\* value.astro.map(|ast| ast.try_into()).transpose(): astro is None or Some(AstroApi)
AstroOption(astro) ==
    IF IsSome(astro) THEN AndThen(AstronomyFromApi(Unwrap(astro)), LAMBDA a : Ok(Some(a)))
    ELSE Ok(None)

\* TryFrom<ForecastDayApi> for WeatherDay
WeatherDayFromApi(value) ==
    AndThen(Context(AstroOption(value.astro), "Failed to parse astronomy data"), LAMBDA astronomy :
    AndThen(Context(CollectHours(value.hour), "Failed to parse hourly weather data"),
            LAMBDA hourly_weather :
    Ok([astronomy |-> astronomy, hourly_weather |-> hourly_weather])))

\* the first retain of filter_future_hours: hour24() >= current_local_hour
RECURSIVE RetainFrom(_, _)
RetainFrom(list, current_local_hour) ==
    IF list = <<>> THEN <<>>
    ELSE (IF Hour24(Head(list).time) >= current_local_hour THEN <<Head(list)>> ELSE <<>>)
         \o RetainFrom(Tail(list), current_local_hour)

\* the second retain of filter_future_hours: hour24() <= max_end_hour
RECURSIVE RetainUpTo(_, _)
RetainUpTo(list, max_end_hour) ==
    IF list = <<>> THEN <<>>
    ELSE (IF Hour24(Head(list).time) <= max_end_hour THEN <<Head(list)>> ELSE <<>>)
         \o RetainUpTo(Tail(list), max_end_hour)

\* `current_local_hour + 11` on u32: a build with overflow checks panics when the
\* sum passes u32::MAX, a build without them wraps
AddU32(a, b, overflow_checks) ==
    IF a + b > U32Max THEN (IF overflow_checks THEN Panic("attempt to add with overflow")
                            ELSE Ok((a + b) % (U32Max + 1)))
    ELSE Ok(a + b)

\* WeatherDay::filter_future_hours
FilterFutureHours(day, current_local_hour, overflow_checks) ==
    Eval(RetainFrom(day.hourly_weather, current_local_hour), LAMBDA first :
    AndThen(AddU32(current_local_hour, 11, overflow_checks), LAMBDA sum :
    Ok([day EXCEPT !.hourly_weather = RetainUpTo(first, Min(sum, 23))])))

\* the local hour read from the first piece of localtime: what C8 rules out
LocationLocalHourFirstPiece(localtime) ==
    Eval(Split(localtime, " "), LAMBDA pieces :
    Eval(IF Len(pieces) >= 1 THEN Some(Split(pieces[1], ":")[1]) ELSE None, LAMBDA hour_str :
    Eval(IF IsSome(hour_str) THEN ParseU32(Unwrap(hour_str)) ELSE None, LAMBDA parsed :
    IF IsSome(parsed) THEN Unwrap(parsed) ELSE 0)))

\* the hour the filter is anchored at: the text before the first ':' of the second
\* space-separated piece of localtime, parsed as u32, or 0
LocationLocalHour(localtime) ==
    Eval(Split(localtime, " "), LAMBDA pieces :
    Eval(IF Len(pieces) >= 2 THEN Some(Split(pieces[2], ":")[1]) ELSE None, LAMBDA hour_str :
    Eval(IF IsSome(hour_str) THEN ParseU32(Unwrap(hour_str)) ELSE None, LAMBDA parsed :
    IF IsSome(parsed) THEN Unwrap(parsed) ELSE 0)))

\* value.forecast.and_then(|f| f.forecastday.into_iter().next()): forecast is None
\* or Some(list of days)
FirstDay(forecast) ==
    IF IsSome(forecast) /\ Unwrap(forecast) # <<>> THEN Some(Head(Unwrap(forecast))) ELSE None

\* .map(|day| day.try_into()).transpose()
DayOption(day) ==
    IF IsSome(day) THEN AndThen(WeatherDayFromApi(Unwrap(day)), LAMBDA d : Ok(Some(d)))
    ELSE Ok(None)

\* .map(|day| day.filter_future_hours(location_local_hour))
FilterOption(day, location_local_hour, overflow_checks) ==
    IF IsSome(day)
    THEN AndThen(FilterFutureHours(Unwrap(day), location_local_hour, overflow_checks),
                 LAMBDA d : Ok(Some(d)))
    ELSE Ok(None)

\* the conversion with the window applied to the raw entries first, so that an
\* entry outside it is dropped before it is converted: what C27 rules out
WeatherDataFromApiFilterFirst(value, overflow_checks) ==
    LET hour == LocationLocalHour(value.location.localtime)
        Inside(e) == LET t == HourTime(e)
                     IN  ~IsOk(t) \/ (Hour24(t.val) >= hour /\ Hour24(t.val) <= Min(hour + 11, 23))
        day == FirstDay(value.forecast)
        pruned == IF IsSome(day)
                  THEN Some([astro |-> Unwrap(day).astro, hour |-> SelectSeq(Unwrap(day).hour, Inside)])
                  ELSE None
    IN  AndThen(Context(CurrentFromApi(value.current), "Failed to parse current conditions"),
                LAMBDA current :
        AndThen(Context(DayOption(pruned), "Failed to parse weather day data"), LAMBDA converted :
        AndThen(FilterOption(converted, hour, overflow_checks), LAMBDA weather_day :
        Ok([current |-> current, location |-> LocationNew(value.location.name),
            weather_day |-> weather_day]))))

\* TryFrom<WeatherApiResponse> for WeatherData
WeatherDataFromApi(value, overflow_checks) ==
    AndThen(Context(CurrentFromApi(value.current), "Failed to parse current conditions"),
            LAMBDA current :
    Eval(LocationNew(value.location.name), LAMBDA location :
    Eval(LocationLocalHour(value.location.localtime), LAMBDA location_local_hour :
    AndThen(Context(DayOption(FirstDay(value.forecast)), "Failed to parse weather day data"),
            LAMBDA converted :
    AndThen(FilterOption(converted, location_local_hour, overflow_checks), LAMBDA weather_day :
    Ok([current |-> current, location |-> location, weather_day |-> weather_day]))))))

(***************************************************************************)
(* The client (src/api/client.rs), the formatter (src/display/waybar.rs)   *)
(* and main (src/main.rs).  A formatted text is held as the template that  *)
(* format! was given together with the values written into it.            *)
(***************************************************************************)
\* WeatherClient::new: api_key is what std::env::var found, None or Some(key)
WeatherClientNew(api_key) ==
    IF IsSome(api_key)
    THEN Ok([base_url |-> "http://api.weatherapi.com/v1", api_key |-> Unwrap(api_key)])
    ELSE Context(Err("environment variable not found"),
                 "WEATHER_API_KEY environment variable not set")

\* WeatherClient::fetch_weather: http is what the request met, a transport
\* failure or a response with its status and, when the body is a document the
\* API types accept, that document
FetchWeather(client, location, http, overflow_checks) ==
    IF http.kind = "transport" \/ http.status >= 400
    THEN Context(Err("request failed"), "Failed to send request")
    ELSE IF http.status # 200 THEN Err("Weather API returned error status")
    ELSE IF ~IsSome(http.json)
    THEN Context(Err("invalid document"), "Failed to parse JSON response from weather API")
    ELSE Context(WeatherDataFromApi(Unwrap(http.json), overflow_checks),
                 "Failed to convert API response to domain model")

\* WaybarFormatter::create_error_output: `{}` of an anyhow error writes its
\* outermost message; now is the formatted clock reading
CreateErrorOutput(location, error, now) ==
    [text |-> [template |-> "-- Weather unavailable"],
     tooltip |-> [template |-> "Unable to fetch weather data for {} Error: {} Service: WeatherAPI.com Last attempt: {}",
                  location |-> location, error |-> error.chain[1], last_attempt |-> now]]

\* WeatherCondition::icon: the arm taken for each description of the model
Icon(description) ==
    IF description \in {"Sunny", "Clear"} THEN "sun" ELSE "sun behind cloud"

\* WaybarFormatter::format_display_text
FormatDisplayText(weather_data) ==
    [template |-> "{} {}/ {} {}",
     icon |-> Icon(weather_data.current.condition),
     temperature |-> weather_data.current.temperature,
     wind_speed |-> FormatColoredCompact(weather_data.current.wind_speed),
     location |-> LocationDisplay(weather_data.location)]

\* WaybarFormatter::format_hourly_entry
FormatHourlyEntry(hourly) ==
    [template |-> "{} - {} {} Wind: {} {}",
     time |-> Pad2(Hour24(hourly.time)) \o <<":">> \o Pad2(Minute(hourly.time)),
     temperature |-> hourly.temperature,
     condition |-> hourly.condition,
     wind_speed |-> FormatColored(hourly.wind_speed),
     wind_direction |-> WindDirectionDisplay(hourly.wind_direction)]

\* WaybarFormatter::format_tooltip: basic_info, then astronomy_info and
\* hourly_forecast, each empty (None) or written, then update_info
FormatTooltip(weather_data) ==
    LET current == weather_data.current
        day == weather_data.weather_day
        ast == IF IsSome(day) THEN Unwrap(day).astronomy ELSE None
    IN  [template |-> "Location: {} Temperature: {} Condition: {} Feels like: {} Humidity: {} (Dew Point: {}) Wind: {} {} Pressure: {}",
         location |-> LocationDisplay(weather_data.location),
         temperature |-> current.temperature,
         condition |-> current.condition,
         feels_like |-> current.feels_like,
         humidity |-> HumidityAsInt(current.humidity),
         dew_point |-> DewPoint(current.humidity, current.temperature),
         wind_speed |-> FormatColored(current.wind_speed),
         wind_direction |-> WindDirectionDisplay(current.wind_direction),
         pressure |-> current.pressure,
         astronomy_info |->
             IF IsSome(ast)
             THEN Some([template |-> "Sunrise: {} Solar Noon: {} Sunset: {} Daylength: {}",
                        sunrise |-> Unwrap(ast).sunrise,
                        solar_noon |-> Eval(SolarNoon(Unwrap(ast)),
                                            LAMBDA noon : IF IsOk(noon) THEN noon.val
                                                          ELSE Unwrap(ast).sunrise),
                        sunset |-> Unwrap(ast).sunset,
                        day_length |-> DayLength(Unwrap(ast))])
             ELSE None,
         hourly_forecast |->
             IF IsSome(day) /\ Unwrap(day).hourly_weather # <<>>
             THEN Some([template |-> "Upcoming Hours: {}",
                        forecast |-> [i \in 1..Len(Unwrap(day).hourly_weather) |->
                                         FormatHourlyEntry(Unwrap(day).hourly_weather[i])]])
             ELSE None,
         update_info |-> [template |-> "Updated: {}", last_updated |-> current.last_updated]]

\* WaybarFormatter::format
Format(weather_data) ==
    Ok([text |-> FormatDisplayText(weather_data), tooltip |-> FormatTooltip(weather_data)])

\* the location main asks for when no argument was given
DefaultLocation == <<"W", "e", "l", "l", "i", "n", "g", "t", "o", "n">>

\* main: what was printed, and how the process ended.  argument is the first
\* command-line argument: given or not, and valid Unicode or not (std::env::args
\* panics on one that is not)
Main(argument, api_key, http, now, overflow_checks) ==
    IF argument.given /\ ~argument.unicode
    THEN [kind |-> "panic", msg |-> "argument is not valid Unicode", stdout |-> <<>>]
    ELSE
    LET location == IF argument.given THEN argument.text ELSE DefaultLocation
    IN  Eval(WeatherClientNew(api_key), LAMBDA client :
        IF IsErr(client)
        THEN [kind |-> "ok", stdout |-> <<CreateErrorOutput(location, client, now)>>]
        ELSE Eval(FetchWeather(client.val, location, http, overflow_checks), LAMBDA fetched :
             IF IsPanic(fetched) THEN [kind |-> "panic", msg |-> fetched.msg, stdout |-> <<>>]
             ELSE IF IsOk(fetched) THEN [kind |-> "ok", stdout |-> <<Format(fetched.val).val>>]
             ELSE [kind |-> "ok", stdout |-> <<CreateErrorOutput(location, fetched, now)>>]))

(***************************************************************************)
(* Inputs.  Raw integers are drawn around every boundary the code tests;   *)
(* documents are a baseline document with a bounded number of fields       *)
(* replaced by alternatives.                                               *)
(***************************************************************************)
Near(b) == (b - Spread)..(b + Spread)

TempRaw == Near(TempMin) \cup Near(TempMax) \cup {0, I32Min, I32Max}
PressureRaw == ((0..Spread) \cup Near(PressureMin) \cup Near(PressureMax)) \cup {1013, U32Max}
WindRaw == (0..Spread) \cup Near(20) \cup Near(51) \cup Near(89) \cup Near(118) \cup Near(WindMax) \cup {U32Max}
GustArg == {None} \cup {Some(g) : g \in WindRaw}

\* the temperatures and humidities (in tenths of a percent) that passed validation
ValidTemps == {t \in TempRaw \cup {-30, -21, -20, -19, 20} : IsOk(TemperatureNew(t))}
ValidHumidities ==
    {h \in Near(HumidityMin * 10) \cup Near(HumidityMax * 10) \cup {44, 45, 95, 500, 595, 600, 604, 605, 949, 950, 954, 955, 960, 994, 995} :
        IsOk(HumidityNew(h))}

\* the times of day an Astronomy is built from: what WeatherTime::parse returns
\* for "HH:mm" texts at the ends and in the middle of the day
ParsedTimes == {[hour |-> h, minute |-> m, second |-> 0] : h \in {0, 6, 12, 18, 23}, m \in {0, 1, 30, 59}}

\* compass tokens: the sixteen points, other cases, surrounding whitespace, and
\* texts that are no compass point
CompassTokens ==
    ValidDirections
    \cup {<<"n">>, <<"n", "n", "w">>, <<"N", "e">>, <<"w">>, <<" ", "N", " ">>, <<"N", " ">>, <<" ", "N">>, <<"\t", "N", "W", "\n">>, <<" ", "s", "w", " ">>, <<>>, <<" ", " ">>,
          <<"N", "o", "r", "t", "h">>, <<"N", "O", "R", "T", "H">>, <<"X">>, <<"I", "N", "V", "A", "L", "I", "D">>, <<"N", "N">>, <<"N", " ", "W">>}

\* texts handed to WeatherTime::parse: an hour, a colon, a minute and what follows,
\* in every combination, then texts with whitespace around them and texts of
\* other shapes
TimeTexts ==
    LET HourTexts ==
            {<<"0">>, <<"1">>, <<"6">>, <<"9">>, <<"0", "0">>, <<"0", "1">>, <<"0", "6">>, <<"1", "1">>, <<"1", "2">>, <<"1", "3">>, <<"1", "8">>, <<"2", "3">>, <<"2", "4">>, <<"2", "5">>}
        MinuteTexts == {<<"0", "0">>, <<"3", "0">>, <<"4", "5">>, <<"5", "9">>, <<"6", "0">>, <<"5">>}
        PeriodTexts == {<<>>, <<" ", "A", "M">>, <<" ", "P", "M">>, <<"A", "M">>, <<"P", "M">>, <<" ", "a", "m">>, <<" ", " ", "P", "M">>}
    IN  ({h \o <<":">> \o m \o p : h \in HourTexts, m \in MinuteTexts, p \in PeriodTexts})
        \cup {<<" ", "0", "6", ":", "3", "0", " ", "A", "M", " ">>, <<"\t", "1", "8", ":", "4", "5", "\n">>, <<" ", "6", ":", "3", "0", " ", "P", "M">>, <<"i", "n", "v", "a", "l", "i", "d">>, <<>>, <<" ", " ">>, <<"0", "6", "-", "3", "0">>, <<"0", "6", "3", "0">>,
              <<"0", "6", ":", "3", "0", ":", "0", "0">>, <<"0", "0", "6", ":", "3", "0">>, <<"0", "6", ":", "3", "0", " ", "A", " ", "M">>, <<"0", "6", " ", ":", "3", "0", " ", "A", "M">>}

\* location names: plain, empty, whitespace of each kind, whitespace around a name
LocationNameTexts ==
    {<<"W", "e", "l", "l", "i", "n", "g", "t", "o", "n">>, <<>>, <<" ">>, <<" ", " ">>, <<"\t">>, <<"\n">>, <<" ", "\t", "\n", " ">>, <<" ", "W", "e", "l", "l", "i", "n", "g", "t", "o", "n", " ">>, <<"N", "e", "w", " ", "Y", "o", "r", "k">>,
     <<"U", "n", "k", "n", "o", "w", "n">>, <<"a">>, <<" ", "a">>, <<"\t", "a", "\n">>}

\* the document r with field f replaced by a
SetField(r, f, a) == [g \in DOMAIN r |-> IF g = f THEN a ELSE r[g]]

\* replace up to k of the listed fields of base, each by one of its alternatives
RECURSIVE Variants(_, _, _, _)
Variants(base, fields, alt, k) ==
    IF fields = <<>> \/ k = 0 THEN {base}
    ELSE Variants(base, Tail(fields), alt, k)
         \cup UNION {Variants(SetField(base, Head(fields), a), Tail(fields), alt, k - 1) :
                     a \in alt[Head(fields)]}

\* the current block of test_weather_response_parsing
BaseCurrent ==
    [last_updated_epoch |-> [days |-> 19370, secs |-> 52200], last_updated |-> <<"2", "0", "2", "3", "-", "0", "1", "-", "1", "3", " ", "1", "4", ":", "3", "0">>,
     temp_c |-> 200, condition |-> "Clear", wind_kph |-> 151, wind_dir |-> <<"N", "W">>,
     pressure_mb |-> 10130, humidity |-> 60, feelslike_c |-> 220, gust_kph |-> 302]

CurrentFields ==
    <<"last_updated_epoch", "last_updated", "temp_c", "feelslike_c", "humidity",
      "wind_kph", "gust_kph", "pressure_mb", "wind_dir">>

CurrentAlt ==
    [last_updated_epoch |-> {[days |-> DaysFromCivil(YearMax, 12, 31) + 1, secs |-> 0],
                             [days |-> DaysFromCivil(YearMin, 1, 1) - 1, secs |-> 86399],
                             [days |-> 0, secs |-> 0]},
     last_updated |-> {<<"g", "a", "r", "b", "a", "g", "e">>, <<"2", "0", "2", "3", "-", "0", "2", "-", "3", "0", " ", "1", "0", ":", "0", "0">>, <<"1", "9", "7", "0", "-", "0", "1", "-", "0", "1", " ", "0", "0", ":", "0", "0">>},
     temp_c |-> {-405, -404, 185, 554, 555, 9990},
     feelslike_c |-> {-405, -404, 185, 554, 555, 9990},
     humidity |-> {-1, 0, 100, 101},
     wind_kph |-> {-30, 0, 250, 5004, 5005, 5000000},
     gust_kph |-> {-30, 0, 250, 254, 255, 5004, 5005},
     pressure_mb |-> {-10, 7994, 7995, 11004, 11005},
     wind_dir |-> {<<"n", "w">>, <<"N", "o", "r", "t", "h">>, <<>>, <<"X">>}]

CurrentInputs == Variants(BaseCurrent, CurrentFields, CurrentAlt, MaxDeviations)

\* an hourly entry of test_weather_response_parsing, at 14:00
BaseHour ==
    [time |-> <<"2", "0", "2", "3", "-", "0", "1", "-", "1", "3", " ", "1", "4", ":", "0", "0">>, temp_c |-> 220, condition |-> "Sunny",
     wind_kph |-> 100, wind_dir |-> <<"N">>, gust_kph |-> 180]

HourFields == <<"time", "temp_c", "wind_kph", "gust_kph", "wind_dir">>

HourAlt ==
    [time |-> {<<"2", "0", "2", "3", "-", "0", "1", "-", "1", "3", " ", "0", "0", ":", "3", "0">>, <<"2", "0", "2", "3", "-", "0", "1", "-", "1", "3", " ", "0", "5", ":", "0", "0">>, <<"2", "0", "2", "3", "-", "0", "1", "-", "1", "3", " ", "1", "3", ":", "0", "0">>,
               <<"2", "0", "2", "3", "-", "0", "1", "-", "1", "3", " ", "2", "3", ":", "0", "0">>, <<"2", "0", "2", "3", "-", "0", "1", "-", "1", "3">>, <<"2", "0", "2", "3", "-", "0", "1", "-", "1", "3", " ", "2", "5", ":", "0", "0">>,
               <<"2", "0", "2", "3", "-", "0", "1", "-", "1", "3", " ", "6", ":", "0", "0">>, <<"2", "0", "2", "3", "-", "0", "1", "-", "1", "3", " ", " ", "1", "4", ":", "0", "0">>, <<"2", "0", "2", "3", "-", "0", "1", "-", "1", "3", " ", "0", "6", ":", "3", "0", " ", "P", "M">>},
     temp_c |-> {-405, -404, 185, 554, 555},
     wind_kph |-> {-30, 250, 5004, 5005},
     gust_kph |-> {0, 250, 254, 255, 5004, 5005},
     wind_dir |-> {<<"s", "w">>, <<"X">>}]

HourInputs == Variants(BaseHour, HourFields, HourAlt, MaxDeviations)

AstroInputs ==
    {[sunrise |-> <<"0", "6", ":", "3", "0", " ", "A", "M">>, sunset |-> <<"0", "6", ":", "3", "0", " ", "P", "M">>],
     [sunrise |-> <<"0", "6", ":", "1", "5", " ", "A", "M">>, sunset |-> <<"2", "0", ":", "4", "5">>],
     [sunrise |-> <<"s", "u", "n", "r", "i", "s", "e">>, sunset |-> <<"0", "6", ":", "3", "0", " ", "P", "M">>],
     [sunrise |-> <<"0", "6", ":", "3", "0", " ", "A", "M">>, sunset |-> <<"2", "5", ":", "0", "0">>],
     [sunrise |-> <<"1", "2", ":", "6", "0">>, sunset |-> <<>>]}

\* the hourly entries a forecast day is built from: good ones at several hours of
\* the day and ones that fail to convert
DayHours ==
    {[BaseHour EXCEPT !.time = t] :
        t \in {<<"2", "0", "2", "3", "-", "0", "1", "-", "1", "3", " ", "0", "0", ":", "3", "0">>, <<"2", "0", "2", "3", "-", "0", "1", "-", "1", "3", " ", "0", "5", ":", "0", "0">>, <<"2", "0", "2", "3", "-", "0", "1", "-", "1", "3", " ", "1", "1", ":", "0", "0">>,
               <<"2", "0", "2", "3", "-", "0", "1", "-", "1", "3", " ", "1", "2", ":", "0", "0">>, <<"2", "0", "2", "3", "-", "0", "1", "-", "1", "3", " ", "1", "3", ":", "0", "0">>, <<"2", "0", "2", "3", "-", "0", "1", "-", "1", "3", " ", "1", "4", ":", "0", "0">>,
               <<"2", "0", "2", "3", "-", "0", "1", "-", "1", "3", " ", "2", "3", ":", "0", "0">>, <<"2", "0", "2", "3", "-", "0", "1", "-", "1", "3">>}}
    \cup {[BaseHour EXCEPT !.time = <<"2", "0", "2", "3", "-", "0", "1", "-", "1", "3", " ", "0", "5", ":", "0", "0">>, !.temp_c = 9990],
          [BaseHour EXCEPT !.wind_dir = <<"X">>]}

\* the lists of at most n elements of pool
RECURSIVE ListsUpTo(_, _)
ListsUpTo(pool, n) ==
    IF n = 0 THEN {<<>>}
    ELSE {<<>>} \cup {<<h>> \o rest : h \in pool, rest \in ListsUpTo(pool, n - 1)}

AstroArg == {None} \cup {Some(a) : a \in AstroInputs}

DayInputs == {[astro |-> a, hour |-> hs] : a \in AstroArg, hs \in ListsUpTo(DayHours, MaxHours)}

\* the documents a whole response is built from
ResponseCurrents ==
    {BaseCurrent,
     [BaseCurrent EXCEPT !.temp_c = 9990],
     [BaseCurrent EXCEPT !.wind_dir = <<"N", "o", "r", "t", "h">>],
     [BaseCurrent EXCEPT !.gust_kph = 0, !.pressure_mb = 7994]}

ResponseHours ==
    {[BaseHour EXCEPT !.time = t] :
        t \in {<<"2", "0", "2", "3", "-", "0", "1", "-", "1", "3", " ", "0", "5", ":", "0", "0">>, <<"2", "0", "2", "3", "-", "0", "1", "-", "1", "3", " ", "1", "3", ":", "0", "0">>, <<"2", "0", "2", "3", "-", "0", "1", "-", "1", "3", " ", "1", "4", ":", "0", "0">>,
               <<"2", "0", "2", "3", "-", "0", "1", "-", "1", "3", " ", "2", "3", ":", "0", "0">>}}
    \cup {[BaseHour EXCEPT !.time = <<"2", "0", "2", "3", "-", "0", "1", "-", "1", "3", " ", "0", "5", ":", "0", "0">>, !.temp_c = 9990]}

ResponseAstro ==
    {None, Some([sunrise |-> <<"0", "6", ":", "3", "0", " ", "A", "M">>, sunset |-> <<"0", "6", ":", "3", "0", " ", "P", "M">>]),
     Some([sunrise |-> <<"0", "6", ":", "3", "0", " ", "A", "M">>, sunset |-> <<"s", "u", "n", "s", "e", "t">>]),
     Some([sunrise |-> <<"1", "1", ":", "5", "9", " ", "P", "M">>, sunset |-> <<"1", "2", ":", "0", "0", " ", "A", "M">>])}

ResponseDays ==
    {[astro |-> a, hour |-> hs] : a \in ResponseAstro, hs \in ListsUpTo(ResponseHours, MaxHours)}

\* a second forecast day, which the conversion never reads
UnreadDay == [astro |-> None, hour |-> <<[BaseHour EXCEPT !.time = <<"t", "o", "m", "o", "r", "r", "o", "w">>]>>]

ForecastArg ==
    {None, Some(<<>>)} \cup {Some(<<d>>) : d \in ResponseDays}
    \cup {Some(<<d, UnreadDay>>) : d \in {e \in ResponseDays : Len(e.hour) <= 1}}

\* localtime as the API sends it, and ways for it to be malformed; the largest
\* hours are the ones at which current_local_hour + 11 passes u32::MAX
LocalTimes ==
    {<<"2", "0", "2", "3", "-", "0", "1", "-", "1", "3", " ", "1", "4", ":", "3", "0">>, <<"2", "0", "2", "3", "-", "0", "1", "-", "1", "3", " ", "4", ":", "0", "5">>, <<"2", "0", "2", "3", "-", "0", "1", "-", "1", "3", " ", "1", "2", ":", "0", "0">>, <<"2", "0", "2", "3", "-", "0", "1", "-", "1", "3", " ", "2", "3", ":", "5", "9">>,
     <<"2", "0", "2", "3", "-", "0", "1", "-", "1", "3", " ", "2", "4", ":", "0", "0">>, <<"2", "0", "2", "3", "-", "0", "1", "-", "1", "3">>, <<>>, <<"2", "0", "2", "3", "-", "0", "1", "-", "1", "3", " ", "x", "x", ":", "3", "0">>, <<"2", "0", "2", "3", "-", "0", "1", "-", "1", "3", " ", " ", "1", "4", ":", "3", "0">>,
     <<"2", "0", "2", "3", "-", "0", "1", "-", "1", "3", " ", "-", "1", ":", "0", "0">>, <<"2", "0", "2", "3", "-", "0", "1", "-", "1", "3", " ", "+", "1", "3", ":", "0", "0">>, <<"2", "0", "2", "3", "-", "0", "1", "-", "1", "3", " ", "6", "5", "5", "2", "4", ":", "0", "0">>,
     <<"2", "0", "2", "3", "-", "0", "1", "-", "1", "3", " ", "6", "5", "5", "2", "5", ":", "0", "0">>, <<"2", "0", "2", "3", "-", "0", "1", "-", "1", "3", " ", "6", "5", "5", "3", "5", ":", "0", "0">>, <<"2", "0", "2", "3", "-", "0", "1", "-", "1", "3", " ", "6", "5", "5", "3", "6", ":", "0", "0">>}

LocationNames == {<<"W", "e", "l", "l", "i", "n", "g", "t", "o", "n">>, <<>>, <<" ", " ">>}

ResponseInputs ==
    {[location |-> [name |-> <<"W", "e", "l", "l", "i", "n", "g", "t", "o", "n">>, localtime |-> lt], current |-> c, forecast |-> f] :
        lt \in LocalTimes, c \in ResponseCurrents, f \in ForecastArg}
    \cup {[location |-> [name |-> n, localtime |-> <<"2", "0", "2", "3", "-", "0", "1", "-", "1", "3", " ", "1", "4", ":", "3", "0">>],
           current |-> BaseCurrent, forecast |-> None] : n \in LocationNames}

\* the hours the filter is anchored at: every hour of the day, the first hour past
\* it, and the hours at which current_local_hour + 11 passes u32::MAX
LocalHours == (0..24) \cup {U32Max - 11, U32Max - 10, U32Max}

(***************************************************************************)
(* The state machine: one action per operation.                            *)
(***************************************************************************)
Init ==
    /\ op = "start"
    /\ args = <<>>
    /\ ret = [kind |-> "none"]

\* nothing has been called yet: every run of the program, and every test, starts
\* from here, makes one call and then works on what the call returned
Fresh == op = "start"

TemperatureNewCall ==
    /\ Fresh
    /\ \E v \in TempRaw :
           /\ op' = "Temperature::new"
           /\ args' = [value |-> v]
           /\ ret' = TemperatureNew(v)

PressureNewCall ==
    /\ Fresh
    /\ \E p \in PressureRaw :
           /\ op' = "Pressure::new"
           /\ args' = [value |-> p]
           /\ ret' = PressureNew(p)

WindSpeedWithGustsCall ==
    /\ Fresh
    /\ \E s \in WindRaw, g \in GustArg :
           /\ op' = "WindSpeed::with_gusts"
           /\ args' = [sustained |-> s, gusts |-> g]
           /\ ret' = WindSpeedWithGusts(s, g)

WindSpeedNewCall ==
    /\ Fresh
    /\ \E s \in WindRaw :
           /\ op' = "WindSpeed::new"
           /\ args' = [sustained |-> s, gusts |-> None]
           /\ ret' = WindSpeedNew(s)

\* WindSpeed::builder() followed by sustained(..) and with_gusts(..), each called
\* or not, then build(): args are the two fields of the builder at that point
BuilderBuildCall ==
    /\ Fresh
    /\ \E s \in GustArg, g \in GustArg :
           /\ op' = "WindSpeedBuilder::build"
           /\ args' = [sustained |-> s, gusts |-> g]
           /\ ret' = BuilderBuild([sustained |-> s, gusts |-> g])

\* the operations that leave a WindSpeed in ret
WindSpeedMakers == {"WindSpeed::with_gusts", "WindSpeed::new"}
HasWindSpeed == op \in WindSpeedMakers /\ IsOk(ret)

\* category() and color() of the WindSpeed just built
CategoryCall ==
    /\ HasWindSpeed
    /\ op' = "WindSpeed::category"
    /\ args' = [self |-> ret.val]
    /\ ret' = Ok([category |-> Category(ret.val), color |-> Color(ret.val)])

\* Humidity::new on an f32: values around both ends of the range and the .5
\* rounding points, values far outside, and NaN
HumidityNewCall ==
    /\ Fresh
    /\ \E v \in Near(HumidityMin * 10) \cup Near(HumidityMax * 10)
                \cup {4, 5, 14, 15, 500, 504, 505, 994, 995, 1010, -10, -10000, 10000, NaN} :
           /\ op' = "Humidity::new"
           /\ args' = [value |-> v]
           /\ ret' = HumidityNew(v)

\* as_int() of the Humidity just built
HumidityAsIntCall ==
    /\ op = "Humidity::new"
    /\ IsOk(ret)
    /\ op' = "Humidity::as_int"
    /\ args' = [self |-> ret.val]
    /\ ret' = Ok(HumidityAsInt(ret.val))

FormatColoredCall ==
    /\ HasWindSpeed
    /\ op' = "WindSpeed::format_colored"
    /\ args' = [self |-> ret.val]
    /\ ret' = Ok(FormatColored(ret.val))

\* dew_point of a Humidity and a Temperature that were built before
DewPointCall ==
    /\ Fresh
    /\ \E h10 \in ValidHumidities, t \in ValidTemps :
           /\ op' = "Humidity::dew_point"
           /\ args' = [self |-> h10, temperature |-> t]
           /\ ret' = Ok(DewPoint(h10, t))

AstronomyNewCall ==
    /\ Fresh
    /\ \E sunrise \in ParsedTimes, sunset \in ParsedTimes :
           /\ op' = "Astronomy::new"
           /\ args' = [sunrise |-> sunrise, sunset |-> sunset]
           /\ ret' = Ok(AstronomyNew(sunrise, sunset))

\* the operations that leave an Astronomy in ret
HasAstronomy == op \in {"Astronomy::new", "Astronomy::try_from"} /\ IsOk(ret)

\* day_length() of the Astronomy just built, with hours() and minutes() of it
DayLengthCall ==
    /\ HasAstronomy
    /\ op' = "Astronomy::day_length"
    /\ args' = [self |-> ret.val]
    /\ ret' = Ok([duration |-> DayLength(ret.val),
                  hours |-> DurationHours(DayLength(ret.val)),
                  minutes |-> DurationMinutes(DayLength(ret.val))])

SolarNoonCall ==
    /\ HasAstronomy
    /\ op' = "Astronomy::solar_noon"
    /\ args' = [self |-> ret.val]
    /\ ret' = SolarNoon(ret.val)

\* the display form of the WindDirection just built
WindDirectionDisplayCall ==
    /\ op = "WindDirection::from_compass"
    /\ IsOk(ret)
    /\ op' = "WindDirection::to_string"
    /\ args' = [self |-> ret.val]
    /\ ret' = Ok(WindDirectionDisplay(ret.val))

FromCompassCall ==
    /\ Fresh
    /\ \E compass \in CompassTokens :
           /\ op' = "WindDirection::from_compass"
           /\ args' = [compass |-> compass]
           /\ ret' = FromCompass(compass)

WeatherTimeParseCall ==
    /\ Fresh
    /\ \E time_str \in TimeTexts :
           /\ op' = "WeatherTime::parse"
           /\ args' = [time_str |-> time_str]
           /\ ret' = WeatherTimeParse(time_str)

LocationNewCall ==
    /\ Fresh
    /\ \E name \in LocationNameTexts :
           /\ op' = "Location::new"
           /\ args' = [name |-> name]
           /\ ret' = Ok(LocationNew(name))

\* the display form of the Location just built
LocationDisplayCall ==
    /\ op = "Location::new"
    /\ op' = "Location::to_string"
    /\ args' = [self |-> ret.val]
    /\ ret' = Ok(LocationDisplay(ret.val))

DisplayCall ==
    /\ HasWindSpeed
    /\ op' = "WindSpeed::to_string"
    /\ args' = [self |-> ret.val]
    /\ ret' = Ok(WindSpeedDisplay(ret.val))

CurrentFromApiCall ==
    /\ Fresh
    /\ \E value \in CurrentInputs :
           /\ op' = "CurrentWeather::try_from"
           /\ args' = value
           /\ ret' = CurrentFromApi(value)

HourlyFromApiCall ==
    /\ Fresh
    /\ \E value \in HourInputs :
           /\ op' = "HourlyWeather::try_from"
           /\ args' = value
           /\ ret' = HourlyFromApi(value)

AstronomyFromApiCall ==
    /\ Fresh
    /\ \E value \in AstroInputs :
           /\ op' = "Astronomy::try_from"
           /\ args' = value
           /\ ret' = AstronomyFromApi(value)

WeatherDayFromApiCall ==
    /\ Fresh
    /\ \E value \in DayInputs :
           /\ op' = "WeatherDay::try_from"
           /\ args' = value
           /\ ret' = WeatherDayFromApi(value)

\* filter_future_hours consumes a WeatherDay that a conversion produced
FilterFutureHoursCall ==
    /\ op = "WeatherDay::try_from"
    /\ IsOk(ret)
    /\ \E c \in LocalHours, overflow_checks \in BOOLEAN :
          /\ op' = "WeatherDay::filter_future_hours"
          /\ args' = [self |-> ret.val, current_local_hour |-> c]
          /\ ret' = FilterFutureHours(ret.val, c, overflow_checks)

\* the whole conversion; whether the build checks arithmetic overflow is not
\* fixed by the sources, so either build may be the one running
WeatherDataFromApiCall ==
    /\ Fresh
    /\ \E value \in ResponseInputs, overflow_checks \in BOOLEAN :
           /\ op' = "WeatherData::try_from"
           /\ args' = value
           /\ ret' = WeatherDataFromApi(value, overflow_checks)

\* format() of the WeatherData a conversion produced
FormatCall ==
    /\ op = "WeatherData::try_from"
    /\ IsOk(ret)
    /\ op' = "WaybarFormatter::format"
    /\ args' = [weather_data |-> ret.val]
    /\ ret' = Format(ret.val)

\* one run of the program: the command line, the environment, what the request
\* meets and the clock are the run's inputs; the documents are those with at most
\* one forecast day of at most one hour
MainCall ==
    /\ Fresh
    /\ LET Arguments ==
               {[given |-> FALSE, unicode |-> TRUE, text |-> <<>>],
                [given |-> TRUE, unicode |-> TRUE, text |-> <<"A", "u", "c", "k", "l", "a", "n", "d">>],
                [given |-> TRUE, unicode |-> TRUE, text |-> <<" ", "N", "e", "w", " ", "Y", "o", "r", "k", " ">>],
                [given |-> TRUE, unicode |-> FALSE, text |-> <<>>]}
           Documents ==
               {d \in ResponseInputs :
                   \/ ~IsSome(d.forecast)
                   \/ Unwrap(d.forecast) = <<>>
                   \/ /\ Len(Unwrap(d.forecast)) = 1
                      /\ Len(Unwrap(d.forecast)[1].hour) <= 1}
           Outcomes ==
               {[kind |-> "transport", status |-> 0, json |-> None]}
               \cup {[kind |-> "response", status |-> s, json |-> None] : s \in {200, 204, 401, 500}}
               \cup {[kind |-> "response", status |-> 200, json |-> Some(d)] : d \in Documents}
               \cup {[kind |-> "response", status |-> 404, json |-> Some(d)] :
                        d \in {e \in Documents : e.forecast = None /\ e.current = BaseCurrent}}
       IN  \E argument \in Arguments, api_key \in {None, Some("test_key")}, http \in Outcomes,
              now \in {"2023-01-13 14:30Z", "Unknown"}, overflow_checks \in BOOLEAN :
               /\ op' = "main"
               /\ args' = [argument |-> argument, api_key |-> api_key, http |-> http]
               /\ ret' = Main(argument, api_key, http, now, overflow_checks)

Next ==
    \/ TemperatureNewCall
    \/ PressureNewCall
    \/ WindSpeedWithGustsCall
    \/ WindSpeedNewCall
    \/ BuilderBuildCall
    \/ CategoryCall
    \/ FormatColoredCall
    \/ DisplayCall
    \/ FromCompassCall
    \/ WindDirectionDisplayCall
    \/ WeatherTimeParseCall
    \/ LocationNewCall
    \/ LocationDisplayCall
    \/ HumidityNewCall
    \/ HumidityAsIntCall
    \/ DewPointCall
    \/ AstronomyNewCall
    \/ DayLengthCall
    \/ SolarNoonCall
    \/ CurrentFromApiCall
    \/ HourlyFromApiCall
    \/ AstronomyFromApiCall
    \/ WeatherDayFromApiCall
    \/ FilterFutureHoursCall
    \/ WeatherDataFromApiCall
    \/ FormatCall
    \/ MainCall

Spec == Init /\ [][Next]_vars

(***************************************************************************)
(* The claims.  The numbers in them are the ones the claims state, written *)
(* out, so that they are compared with what the code's constants produce.  *)
(***************************************************************************)
ClaimWindOk(w) ==
    /\ w.sustained \in 0..500
    /\ IsSome(w.gusts) => (Unwrap(w.gusts) <= 500 /\ Unwrap(w.gusts) >= w.sustained)

ClaimCurrentOk(c) ==
    /\ c.temperature \in -40..55
    /\ c.feels_like \in -40..55
    /\ c.humidity \in 0..1000
    /\ c.pressure \in 800..1100
    /\ ClaimWindOk(c.wind_speed)
    /\ c.wind_direction \in ValidDirections

ClaimHourlyOk(h) ==
    /\ h.time.hour \in 0..23
    /\ h.time.minute \in 0..59
    /\ h.temperature \in -40..55
    /\ ClaimWindOk(h.wind_speed)
    /\ h.wind_direction \in ValidDirections

\* C1: every WeatherData the conversion returns has every field inside its range:
\* temperatures -40..55, humidity 0..100, pressure 800..1100, winds at most 500
\* with gusts no lower than sustained, a direction among the sixteen, and
\* retained hours with hour 0..23 and minute 0..59.  The same holds of a
\* CurrentWeather or HourlyWeather converted on its own.
C1_AggregateFieldsValid ==
    /\ (op = "WeatherData::try_from" /\ IsOk(ret)) =>
          /\ ClaimCurrentOk(ret.val.current)
          /\ IsSome(ret.val.weather_day) =>
                \A i \in 1..Len(Unwrap(ret.val.weather_day).hourly_weather) :
                    ClaimHourlyOk(Unwrap(ret.val.weather_day).hourly_weather[i])
    /\ (op = "CurrentWeather::try_from" /\ IsOk(ret)) => ClaimCurrentOk(ret.val)
    /\ (op = "HourlyWeather::try_from" /\ IsOk(ret)) => ClaimHourlyOk(ret.val)

\* a WeatherData with gusts in the current block and a retained hourly entry
C1_Witness ==
    /\ op = "WeatherData::try_from"
    /\ IsOk(ret)
    /\ IsSome(ret.val.current.wind_speed.gusts)
    /\ IsSome(ret.val.weather_day)
    /\ Len(Unwrap(ret.val.weather_day).hourly_weather) >= 1

\* C2: Temperature::new(v) succeeds iff -40 <= v <= 55, Pressure::new(p) succeeds
\* iff 800 <= p <= 1100, and value() of the result is the number passed in.
C2_RangeConstruction ==
    /\ op = "Temperature::new" =>
          /\ IsOk(ret) <=> (-40 <= args.value /\ args.value <= 55)
          /\ IsOk(ret) => ret.val = args.value
          /\ ret.kind \in {"ok", "err"}
    /\ op = "Pressure::new" =>
          /\ IsOk(ret) <=> (800 <= args.value /\ args.value <= 1100)
          /\ IsOk(ret) => ret.val = args.value
          /\ ret.kind \in {"ok", "err"}

\* the lowest temperature is accepted
C2_Witness == op = "Temperature::new" /\ args.value = -40 /\ IsOk(ret)

\* C3: with_gusts(s, Some(g)) fails iff g < s or s > 500 or g > 500; with_gusts(s,
\* None) and new(s) fail iff s > 500; g = s with both at most 500 succeeds.
C3_WindSpeedConstruction ==
    op \in {"WindSpeed::with_gusts", "WindSpeed::new"} =>
        /\ ret.kind \in {"ok", "err"}
        /\ IsErr(ret) <=>
              \/ args.sustained > 500
              \/ IsSome(args.gusts) /\ (Unwrap(args.gusts) > 500 \/ Unwrap(args.gusts) < args.sustained)
        /\ IsOk(ret) => (ret.val.sustained = args.sustained /\ ret.val.gusts = args.gusts)

\* gusts equal to sustained, both at the top of the range, are accepted
C3_Witness ==
    /\ op = "WindSpeed::with_gusts"
    /\ args.sustained = 500
    /\ args.gusts = Some(500)
    /\ IsOk(ret)

ClaimBand(speed) ==
    CASE speed \in 0..19 -> "Calm"
      [] speed \in 20..50 -> "ModerateBreezes"
      [] speed \in 51..88 -> "Gales"
      [] speed \in 89..117 -> "Storms"
      [] speed >= 118 -> "Hurricane"

ClaimColor(band) ==
    CASE band = "Calm" -> <<"#", "F", "F", "F", "F", "F", "F">>
      [] band = "ModerateBreezes" -> <<"#", "0", "0", "A", "A", "0", "0">>
      [] band = "Gales" -> <<"#", "F", "F", "A", "5", "0", "0">>
      [] band = "Storms" -> <<"#", "F", "F", "0", "0", "0", "0">>
      [] band = "Hurricane" -> <<"#", "9", "B", "3", "0", "F", "F">>

ClaimSpan(speed) ==
    <<"<", "s", "p", "a", "n", " ", "f", "o", "r", "e", "g", "r", "o", "u", "n", "d", "=", "\"">> \o ClaimColor(ClaimBand(speed)) \o <<"\"", ">">> \o NatChars(speed) \o <<"<", "/", "s", "p", "a", "n", ">">>

\* C4: the category is decided by the sustained speed alone, in the bands 0..19,
\* 20..50, 51..88, 89..117 and 118 up, with the colours #FFFFFF, #00AA00, #FFA500,
\* #FF0000 and #9B30FF; format_colored colours the gust figure by the band of the
\* gust value, whatever the band of the sustained speed.
C4_CategoryBands ==
    /\ op = "WindSpeed::category" =>
          /\ ret.val.category = ClaimBand(args.self.sustained)
          /\ ret.val.color = ClaimColor(ClaimBand(args.self.sustained))
    /\ op = "WindSpeed::format_colored" =>
          ret.val = IF IsSome(args.self.gusts)
                    THEN ClaimSpan(args.self.sustained) \o <<" ", "k", "m", "/", "h", " ", "(", "G", "u", "s", "t", "s", ":", " ">>
                         \o ClaimSpan(Unwrap(args.self.gusts)) \o <<" ", "k", "m", "/", "h", ")">>
                    ELSE ClaimSpan(args.self.sustained) \o <<" ", "k", "m", "/", "h">>

\* a calm wind with hurricane gusts has been formatted
C4_Witness ==
    /\ op = "WindSpeed::format_colored"
    /\ args.self.sustained = 19
    /\ args.self.gusts = Some(118)

\* C5: the text of a WindSpeed holds the "(Gusts: G km/h)" clause exactly when the
\* gusts field is present: "s km/h (Gusts: g km/h)" with gusts, also when g = s,
\* and "s km/h" without.
C5_GustsClause ==
    op = "WindSpeed::to_string" =>
        /\ Contains(ret.val, <<"(", "G", "u", "s", "t", "s", ":", " ">>) <=> IsSome(args.self.gusts)
        /\ IsSome(args.self.gusts) =>
              ret.val = NatChars(args.self.sustained) \o <<" ", "k", "m", "/", "h", " ", "(", "G", "u", "s", "t", "s", ":", " ">>
                        \o NatChars(Unwrap(args.self.gusts)) \o <<" ", "k", "m", "/", "h", ")">>
        /\ ~IsSome(args.self.gusts) => ret.val = NatChars(args.self.sustained) \o <<" ", "k", "m", "/", "h">>

\* a WindSpeed built with gusts equal to sustained has been rendered
C5_Witness ==
    /\ op = "WindSpeed::to_string"
    /\ args.self.gusts = Some(args.self.sustained)
    /\ Contains(ret.val, <<"(", "G", "u", "s", "t", "s", ":", " ">>)

\* a float held in tenths, rounded to the nearest integer and not below zero
ClaimRoundNonNeg(t) == IF t <= 0 THEN 0 ELSE (t + 5) \div 10

\* C6: in the conversion of a current block and of an hourly entry the two wind
\* floats are rounded to non-negative integers, and the WindSpeed carries gusts
\* exactly when the rounded gust is strictly above the rounded sustained speed.
C6_GustsOnlyWhenAbove ==
    (op \in {"CurrentWeather::try_from", "HourlyWeather::try_from"} /\ IsOk(ret)) =>
        /\ ret.val.wind_speed.sustained = ClaimRoundNonNeg(args.wind_kph)
        /\ IsSome(ret.val.wind_speed.gusts) <=>
              ClaimRoundNonNeg(args.gust_kph) > ClaimRoundNonNeg(args.wind_kph)
        /\ IsSome(ret.val.wind_speed.gusts) =>
              Unwrap(ret.val.wind_speed.gusts) = ClaimRoundNonNeg(args.gust_kph)

\* sustained 25.0 with a gust of 25.4, which rounds to 25: no gusts
C6_Witness ==
    /\ op = "CurrentWeather::try_from"
    /\ args.wind_kph = 250
    /\ args.gust_kph = 254
    /\ IsOk(ret)
    /\ ~IsSome(ret.val.wind_speed.gusts)

\* the entries of list whose hour lies in c..min(c + 11, 23), in the order of list
ClaimWindow(list, c) ==
    SelectSeq(list, LAMBDA h : c <= h.time.hour /\ h.time.hour <= (IF c + 11 < 23 THEN c + 11 ELSE 23))

\* C7: filter_future_hours(c) returns the day with exactly the hourly entries whose
\* hour h has c <= h <= min(c + 11, 23), in their original order, for every list
\* and every c of the parameter's type.
C7_FilterWindow ==
    op = "WeatherDay::filter_future_hours" =>
        /\ IsOk(ret)
        /\ ret.val.hourly_weather = ClaimWindow(args.self.hourly_weather, args.current_local_hour)
        /\ ret.val.astronomy = args.self.astronomy

\* what does hold of filter_future_hours: whenever it returns, it returns the window
FilterWindowWhenReturned ==
    (op = "WeatherDay::filter_future_hours" /\ ~IsPanic(ret)) =>
        /\ IsOk(ret)
        /\ ret.val.hourly_weather = ClaimWindow(args.self.hourly_weather, args.current_local_hour)
        /\ ret.val.astronomy = args.self.astronomy

\* the calls in which filter_future_hours does not return
FilterPanics ==
    (op = "WeatherDay::filter_future_hours" /\ IsPanic(ret)) => args.current_local_hour + 11 > U32Max

\* the localtime texts with no second piece, or none that reads as an unsigned number
ClaimMalformed ==
    {<<"2", "0", "2", "3", "-", "0", "1", "-", "1", "3">>, <<>>, <<"2", "0", "2", "3", "-", "0", "1", "-", "1", "3", " ", "x", "x", ":", "3", "0">>, <<"2", "0", "2", "3", "-", "0", "1", "-", "1", "3", " ", " ", "1", "4", ":", "3", "0">>, <<"2", "0", "2", "3", "-", "0", "1", "-", "1", "3", " ", "-", "1", ":", "0", "0">>,
     <<"2", "0", "2", "3", "-", "0", "1", "-", "1", "3", " ", "6", "5", "5", "3", "6", ":", "0", "0">>}

\* the integer before the first ':' of the second piece of each localtime text
ClaimLocalHour(localtime) ==
    CASE localtime = <<"2", "0", "2", "3", "-", "0", "1", "-", "1", "3", " ", "1", "4", ":", "3", "0">> -> 14
      [] localtime = <<"2", "0", "2", "3", "-", "0", "1", "-", "1", "3", " ", "4", ":", "0", "5">> -> 4
      [] localtime = <<"2", "0", "2", "3", "-", "0", "1", "-", "1", "3", " ", "1", "2", ":", "0", "0">> -> 12
      [] localtime = <<"2", "0", "2", "3", "-", "0", "1", "-", "1", "3", " ", "2", "3", ":", "5", "9">> -> 23
      [] localtime = <<"2", "0", "2", "3", "-", "0", "1", "-", "1", "3", " ", "2", "4", ":", "0", "0">> -> 24
      [] localtime = <<"2", "0", "2", "3", "-", "0", "1", "-", "1", "3", " ", "+", "1", "3", ":", "0", "0">> -> 13
      [] localtime = <<"2", "0", "2", "3", "-", "0", "1", "-", "1", "3", " ", "6", "5", "5", "2", "4", ":", "0", "0">> -> 65524
      [] localtime = <<"2", "0", "2", "3", "-", "0", "1", "-", "1", "3", " ", "6", "5", "5", "2", "5", ":", "0", "0">> -> 65525
      [] localtime = <<"2", "0", "2", "3", "-", "0", "1", "-", "1", "3", " ", "6", "5", "5", "3", "5", ":", "0", "0">> -> 65535
      [] localtime \in ClaimMalformed -> 0

\* C8: the hour the hourly filter of a response is anchored at is the integer before
\* the first ':' of the second space-separated piece of localtime, and 0 when that
\* piece is missing or does not parse; a malformed localtime never makes the
\* conversion fail, and the window is then 0..11.
C8_LocalHourAnchor ==
    op = "WeatherData::try_from" =>
        LET localtime == args.location.localtime
            day == FirstDay(args.forecast)
        IN  /\ (IsOk(ret) /\ IsSome(ret.val.weather_day)) =>
                  Unwrap(ret.val.weather_day).hourly_weather =
                      ClaimWindow(CollectHours(Unwrap(day).hour).val, ClaimLocalHour(localtime))
            /\ localtime \in ClaimMalformed =>
                  /\ ret.kind \in {"ok", "err"}
                  /\ IsOk(ret) <=> (IsOk(CurrentFromApi(args.current)) /\ IsOk(DayOption(day)))
                  /\ (IsOk(ret) /\ IsSome(ret.val.weather_day)) =>
                        \A i \in 1..Len(Unwrap(ret.val.weather_day).hourly_weather) :
                            Unwrap(ret.val.weather_day).hourly_weather[i].time.hour \in 0..11

\* a response whose localtime has no time piece: converted, the 05:00 entry kept
\* and a later one dropped
C8_Witness ==
    /\ op = "WeatherData::try_from"
    /\ args.location.localtime = <<"2", "0", "2", "3", "-", "0", "1", "-", "1", "3">>
    /\ IsOk(ret)
    /\ IsSome(ret.val.weather_day)
    /\ Len(Unwrap(FirstDay(args.forecast)).hour) = 2
    /\ Len(Unwrap(ret.val.weather_day).hourly_weather) = 1
    /\ Unwrap(ret.val.weather_day).hourly_weather[1].time.hour = 5

\* C9: the conversion of a forecast day is all or nothing: one hourly entry that
\* fails to convert fails the day and with it the whole response; with no astro
\* block the day converts with astronomy None; an astro block whose sunrise or
\* sunset does not parse fails the day.
C9_DayAllOrNothing ==
    /\ op = "WeatherDay::try_from" =>
          LET hour_fails == \E i \in 1..Len(args.hour) : ~IsOk(HourlyFromApi(args.hour[i]))
              astro_fails == /\ IsSome(args.astro)
                             /\ \/ ~IsOk(WeatherTimeParse(Unwrap(args.astro).sunrise))
                                \/ ~IsOk(WeatherTimeParse(Unwrap(args.astro).sunset))
          IN  /\ ret.kind \in {"ok", "err"}
              /\ IsErr(ret) <=> (hour_fails \/ astro_fails)
              /\ IsOk(ret) =>
                    /\ Len(ret.val.hourly_weather) = Len(args.hour)
                    /\ \A i \in 1..Len(args.hour) :
                          ret.val.hourly_weather[i] = HourlyFromApi(args.hour[i]).val
                    /\ IsSome(ret.val.astronomy) <=> IsSome(args.astro)
    /\ op = "WeatherData::try_from" =>
          LET day == FirstDay(args.forecast)
          IN  (IsSome(day) /\ \E i \in 1..Len(Unwrap(day).hour) :
                                  ~IsOk(HourlyFromApi(Unwrap(day).hour[i]))) => IsErr(ret)

\* a day of two entries, the first convertible and the second not, is refused
C9_Witness ==
    /\ op = "WeatherDay::try_from"
    /\ Len(args.hour) = 2
    /\ IsOk(HourlyFromApi(args.hour[1]))
    /\ ~IsOk(HourlyFromApi(args.hour[2]))
    /\ ~IsSome(args.astro)
    /\ IsErr(ret)

\* a float held in tenths, rounded to the nearest integer
ClaimRound(t) == IF t >= 0 THEN (t + 5) \div 10 ELSE -((5 - t) \div 10)

\* the sub-fields of a current block in the order the claim gives, each with the
\* context its failure carries and whether the block's value fails it
ClaimCurrentStages(value) ==
    LET s == ClaimRoundNonNeg(value.wind_kph)
        g == ClaimRoundNonNeg(value.gust_kph)
    IN  << [context |-> "Failed to parse last updated timestamp",
            fails |-> ~IsOk(LastUpdatedFromApi(value))],
           [context |-> "Temperature out of range",
            fails |-> ClaimRound(value.temp_c) \notin -40..55],
           [context |-> "Feels like temperature out of range",
            fails |-> ClaimRound(value.feelslike_c) \notin -40..55],
           [context |-> "Humidity out of range",
            fails |-> value.humidity \notin 0..100],
           [context |-> IF g > s THEN "Invalid wind data" ELSE "Wind speed out of range",
            fails |-> s > 500 \/ (g > s /\ g > 500)],
           [context |-> "Pressure out of range",
            fails |-> ClaimRoundNonNeg(value.pressure_mb) \notin 800..1100],
           [context |-> "Invalid wind direction",
            fails |-> ToUppercase(value.wind_dir) \notin ValidDirections] >>

\* the first sub-field of the block that fails, 0 when none does
ClaimFirstFailure(value) ==
    LET stages == ClaimCurrentStages(value)
        failing == {i \in 1..Len(stages) : stages[i].fails}
    IN  IF failing = {} THEN 0 ELSE CHOOSE i \in failing : \A j \in failing : i <= j

\* the first hourly entry of the list that fails to convert, 0 when none does
ClaimFirstBadHour(hours) ==
    LET failing == {i \in 1..Len(hours) : ~IsOk(HourlyFromApi(hours[i]))}
    IN  IF failing = {} THEN 0 ELSE CHOOSE i \in failing : \A j \in failing : i <= j

\* the sub-fields are checked in the fixed order and the first failing one aborts
\* the aggregate: a current block, then a forecast day, then a response
ClaimCurrentInOrder ==
    op = "CurrentWeather::try_from" =>
        LET first == ClaimFirstFailure(args)
        IN  /\ first = 0 <=> IsOk(ret)
            /\ first > 0 => (IsErr(ret) /\ ret.chain[1] = ClaimCurrentStages(args)[first].context)

ClaimDayInOrder ==
    op = "WeatherDay::try_from" =>
        LET astro_fails == IsSome(args.astro) /\ ~IsOk(AstronomyFromApi(Unwrap(args.astro)))
            bad == ClaimFirstBadHour(args.hour)
        IN  /\ astro_fails => (IsErr(ret) /\ ret.chain[1] = "Failed to parse astronomy data")
            /\ (~astro_fails /\ bad > 0) =>
                  /\ IsErr(ret)
                  /\ ret.chain = <<"Failed to parse hourly weather data">>
                                 \o HourlyFromApi(args.hour[bad]).chain
            /\ (~astro_fails /\ bad = 0) => IsOk(ret)

ClaimResponseInOrder ==
    op = "WeatherData::try_from" =>
        LET current == CurrentFromApi(args.current)
            day == DayOption(FirstDay(args.forecast))
        IN  /\ ~IsOk(current) =>
                  /\ IsErr(ret)
                  /\ ret.chain = <<"Failed to parse current conditions">> \o current.chain
            /\ (IsOk(current) /\ ~IsOk(day)) =>
                  /\ IsErr(ret)
                  /\ ret.chain = <<"Failed to parse weather day data">> \o day.chain
            /\ IsOk(ret) =>
                  /\ ret.val.current = current.val
                  /\ IsSome(ret.val.weather_day) <=> IsSome(FirstDay(args.forecast))
                  /\ IsSome(ret.val.weather_day) =>
                        Unwrap(ret.val.weather_day).astronomy = Unwrap(day.val).astronomy

\* C10: the conversion of a response yields a complete WeatherData or an error and
\* nothing else; the first failing sub-field aborts the aggregate, the sub-fields
\* being checked in the order last_updated, temperature, feels_like, humidity, wind
\* speed, pressure, wind direction in a current block and astronomy, then the hours
\* in a forecast day; the outermost context of the error is "Failed to parse
\* current conditions" when the current block failed, also when the forecast is
\* invalid too, and "Failed to parse weather day data" when the day failed.
C10_CompleteOrError ==
    /\ op = "WeatherData::try_from" => ret.kind \in {"ok", "err"}
    /\ ClaimCurrentInOrder
    /\ ClaimDayInOrder
    /\ ClaimResponseInOrder

\* what does hold of the conversion: the order of the checks and the contexts
ConversionInOrder == ClaimCurrentInOrder /\ ClaimDayInOrder /\ ClaimResponseInOrder

\* the conversions of a response that end in neither a WeatherData nor an error
ConversionPanics ==
    (op = "WeatherData::try_from" /\ ret.kind \notin {"ok", "err"}) =>
        /\ IsPanic(ret)
        /\ ClaimLocalHour(args.location.localtime) + 11 > U32Max
        /\ IsOk(CurrentFromApi(args.current))
        /\ IsSome(FirstDay(args.forecast))
        /\ IsOk(DayOption(FirstDay(args.forecast)))


\* a timestamp from_unix_timestamp takes: from -9999-01-01 to 9999-12-31, in days
ClaimEpochValid(epoch) == epoch.days >= -4371587 /\ epoch.days <= 2932896

\* the instant each last_updated text of the pool denotes, None when it denotes none
ClaimStringInstant(text) ==
    CASE text = <<"2", "0", "2", "3", "-", "0", "1", "-", "1", "3", " ", "1", "4", ":", "3", "0">> -> Some([days |-> 19370, secs |-> 52200])
      [] text = <<"1", "9", "7", "0", "-", "0", "1", "-", "0", "1", " ", "0", "0", ":", "0", "0">> -> Some([days |-> 0, secs |-> 0])
      [] text = <<"2", "0", "2", "3", "-", "0", "2", "-", "3", "0", " ", "1", "0", ":", "0", "0">> -> None
      [] text = <<"g", "a", "r", "b", "a", "g", "e">> -> None

\* C11: in the conversion of a current block last_updated comes from
\* last_updated_epoch whenever the epoch is a valid timestamp, whatever the
\* last_updated string holds; the string is read only when the epoch is invalid;
\* and the conversion fails on the timestamp only when both are invalid.
C11_EpochPreferred ==
    op = "CurrentWeather::try_from" =>
        LET epoch_valid == ClaimEpochValid(args.last_updated_epoch)
            from_string == ClaimStringInstant(args.last_updated)
            timestamp_failed == IsErr(ret) /\ ret.chain[1] = "Failed to parse last updated timestamp"
        IN  /\ (epoch_valid /\ IsOk(ret)) => ret.val.last_updated = args.last_updated_epoch
            /\ (~epoch_valid /\ IsSome(from_string) /\ IsOk(ret)) =>
                  ret.val.last_updated = Unwrap(from_string)
            /\ timestamp_failed <=> (~epoch_valid /\ ~IsSome(from_string))

\* a valid epoch with a string that is no date: converted, the instant is the epoch's
C11_Witness ==
    /\ op = "CurrentWeather::try_from"
    /\ args.last_updated = <<"g", "a", "r", "b", "a", "g", "e">>
    /\ ClaimEpochValid(args.last_updated_epoch)
    /\ IsOk(ret)
    /\ ret.val.last_updated = args.last_updated_epoch

\* an invalid epoch with a good string: converted, the instant is the string's
C11_FallbackReached ==
    /\ op = "CurrentWeather::try_from"
    /\ ~ClaimEpochValid(args.last_updated_epoch)
    /\ IsOk(ret)
    /\ ret.val.last_updated = [days |-> 19370, secs |-> 52200]


\* C12: dew_point never fails: for a valid temperature t and humidity h it returns
\* t - (100 - round(h)) / 5, the division truncated, when that lies in -40..55, and
\* t itself otherwise (20 and 60 give 12; -40 and 0 give -40).
C12_DewPointFallback ==
    op = "Humidity::dew_point" =>
        LET t == args.temperature
            v == t - ((100 - ClaimRound(args.self)) \div 5)
        IN  /\ IsOk(ret)
            /\ ret.val = IF v >= -40 /\ v <= 55 THEN v ELSE t

\* a dew point below the range: the temperature comes back unchanged
C12_Witness ==
    /\ op = "Humidity::dew_point"
    /\ args.temperature = -30
    /\ args.self = 0
    /\ ret = Ok(-30)

\* the example of the tests: 20 degrees at 60 percent gives 12
C12_Example == op = "Humidity::dew_point" /\ args = [self |-> 600, temperature |-> 20] /\ ret = Ok(12)


\* a time of day as seconds since midnight
ClaimSeconds(t) == t.hour * 3600 + t.minute * 60 + t.second

\* C13: day_length is sunset - sunrise when sunset >= sunrise and (86400 - sunrise)
\* + sunset otherwise, in seconds since midnight, turned into whole minutes by
\* integer division by 60; hours() is minutes / 60 and minutes() is minutes mod 60.
C13_DayLength ==
    op = "Astronomy::day_length" =>
        LET sunrise == ClaimSeconds(args.self.sunrise)
            sunset == ClaimSeconds(args.self.sunset)
            seconds == IF sunset >= sunrise THEN sunset - sunrise ELSE (86400 - sunrise) + sunset
        IN  /\ IsOk(ret)
            /\ ret.val.duration.total_minutes = seconds \div 60
            /\ ret.val.hours = (seconds \div 60) \div 60
            /\ ret.val.minutes = (seconds \div 60) % 60

\* a sunset before the sunrise: 18:30 to 06:30 is twelve hours
C13_Witness ==
    /\ op = "Astronomy::day_length"
    /\ args.self.sunrise = [hour |-> 18, minute |-> 30, second |-> 0]
    /\ args.self.sunset = [hour |-> 6, minute |-> 30, second |-> 0]
    /\ ret.val.hours = 12
    /\ ret.val.minutes = 0

\* the example of the tests: 06:30 to 18:30 is 12:00
C13_Example ==
    /\ op = "Astronomy::day_length"
    /\ args.self.sunrise = [hour |-> 6, minute |-> 30, second |-> 0]
    /\ args.self.sunset = [hour |-> 18, minute |-> 30, second |-> 0]
    /\ ret.val.hours = 12
    /\ ret.val.minutes = 0

\* C14: solar_noon is the midpoint of the sunrise-to-sunset interval: sunrise +
\* (sunset - sunrise) / 2 seconds when sunset >= sunrise, (sunrise + day_length / 2)
\* mod 86400 when sunset < sunrise, cut to hh:mm; with sunset >= sunrise it lies
\* between sunrise and sunset, both included.
C14_SolarNoon ==
    op = "Astronomy::solar_noon" =>
        LET sunrise == ClaimSeconds(args.self.sunrise)
            sunset == ClaimSeconds(args.self.sunset)
            noon == IF sunset >= sunrise THEN sunrise + (sunset - sunrise) \div 2
                    ELSE (sunrise + ((86400 - sunrise) + sunset) \div 2) % 86400
        IN  /\ IsOk(ret)
            /\ ret.val = [hour |-> noon \div 3600, minute |-> (noon % 3600) \div 60, second |-> 0]
            /\ sunset >= sunrise =>
                  (sunrise <= ClaimSeconds(ret.val) /\ ClaimSeconds(ret.val) <= sunset)

\* a sunset before the sunrise: the midpoint of 18:30 to 06:30 is 00:30
C14_Witness ==
    /\ op = "Astronomy::solar_noon"
    /\ args.self.sunrise = [hour |-> 18, minute |-> 30, second |-> 0]
    /\ args.self.sunset = [hour |-> 6, minute |-> 30, second |-> 0]
    /\ ret = Ok([hour |-> 0, minute |-> 30, second |-> 0])

\* the example of the tests: 06:30 and 18:30 give 12:30
C14_Example ==
    /\ op = "Astronomy::solar_noon"
    /\ args.self.sunrise = [hour |-> 6, minute |-> 30, second |-> 0]
    /\ args.self.sunset = [hour |-> 18, minute |-> 30, second |-> 0]
    /\ ret = Ok([hour |-> 12, minute |-> 30, second |-> 0])


\* the sixteen compass points, as the claim lists them
ClaimCompassPoints ==
    {<<"N">>, <<"N", "N", "E">>, <<"N", "E">>, <<"E", "N", "E">>, <<"E">>, <<"E", "S", "E">>, <<"S", "E">>, <<"S", "S", "E">>,
     <<"S">>, <<"S", "S", "W">>, <<"S", "W">>, <<"W", "S", "W">>, <<"W">>, <<"W", "N", "W">>, <<"N", "W">>, <<"N", "N", "W">>}

\* C15: from_compass accepts a token iff its trimmed, upper-cased form is one of the
\* sixteen compass points, so " N " is accepted, and rejects empty, whitespace-only,
\* full-word and all other tokens.
C15_CompassTrimmed ==
    op = "WindDirection::from_compass" =>
        /\ ret.kind \in {"ok", "err"}
        /\ IsOk(ret) <=> ToUppercase(Trim(args.compass)) \in ClaimCompassPoints

\* what does hold of from_compass: the token is upper-cased and not trimmed
CompassUntrimmed ==
    op = "WindDirection::from_compass" =>
        /\ ret.kind \in {"ok", "err"}
        /\ IsOk(ret) <=> ToUppercase(args.compass) \in ClaimCompassPoints
        /\ IsOk(ret) => ret.val = ToUppercase(args.compass)

\* the tokens on which from_compass and the claim part: those with whitespace
\* around a compass point
CompassPartsOnlyOnWhitespace ==
    (op = "WindDirection::from_compass"
     /\ (IsOk(ret) # (ToUppercase(Trim(args.compass)) \in ClaimCompassPoints))) =>
        /\ IsErr(ret)
        /\ Trim(args.compass) # args.compass


ClaimMeridiems == {<<"A", "M">>, <<"P", "M">>}

\* the four documented shapes of a time text: zero-padded 12-hour with a space
\* ("06:30 AM"), 24-hour ("18:30"), 12-hour with no space ("6:30AM"), and
\* non-padded 12-hour with a space ("6:30 AM")
ClaimPadded12Space(text) ==
    \E h \in 1..12, m \in 0..59, p \in ClaimMeridiems : text = Pad2(h) \o <<":">> \o Pad2(m) \o <<" ">> \o p
ClaimHour24(text) ==
    \E h \in 0..23, m \in 0..59 : text = Pad2(h) \o <<":">> \o Pad2(m)
ClaimNoSpace12(text) ==
    \E h \in 1..12, m \in 0..59, p \in ClaimMeridiems :
        \/ text = NatChars(h) \o <<":">> \o Pad2(m) \o p
        \/ text = Pad2(h) \o <<":">> \o Pad2(m) \o p
ClaimNoPad12Space(text) ==
    \E h \in 1..12, m \in 0..59, p \in ClaimMeridiems : text = NatChars(h) \o <<":">> \o Pad2(m) \o <<" ">> \o p

\* C16: WeatherTime::parse accepts each of the four documented shapes, "06:30 AM",
\* "18:30", "6:30AM" and "6:30 AM", and fails only if the trimmed input matches
\* none of them.
C16_FourShapesAccepted ==
    op = "WeatherTime::parse" =>
        LET trimmed == Trim(args.time_str)
        IN  (\/ ClaimPadded12Space(trimmed)
             \/ ClaimHour24(trimmed)
             \/ ClaimNoSpace12(trimmed)
             \/ ClaimNoPad12Space(trimmed)) => IsOk(ret)

\* what does hold of parse: it accepts exactly the shapes with a space and the
\* 24-hour shape, and of the shape with no space only the texts with a two-digit hour
ShapesAccepted ==
    op = "WeatherTime::parse" =>
        LET trimmed == Trim(args.time_str)
        IN  /\ ret.kind \in {"ok", "err"}
            /\ IsOk(ret) <=>
                  \/ ClaimPadded12Space(trimmed)
                  \/ ClaimHour24(trimmed)
                  \/ ClaimNoPad12Space(trimmed)
                  \/ \E h \in 1..12, m \in 0..59, p \in ClaimMeridiems :
                        trimmed = Pad2(h) \o <<":">> \o Pad2(m) \o p


\* the hour of the day a 12-hour reading denotes
ClaimHourOf(h, meridiem) == (h % 12) + (IF meridiem = <<"P", "M">> THEN 12 ELSE 0)

\* a text of two digits, a colon and two digits
ClaimIsHHmm(text) ==
    /\ Len(text) = 5
    /\ text[3] = ":"
    /\ \A i \in {1, 2, 4, 5} : IsDigit(text[i])

\* C17: every WeatherTime that parse returns has hour24 in 0..23 and minute in
\* 0..59 and denotes the time written: a 12-hour text h:mm AM/PM gives hour24 =
\* (h mod 12) + (12 if PM else 0) and minute mm, a 24-hour text HH:mm gives HH and
\* mm, and a text with hour above 23 or minute above 59 is refused.
C17_TimeDenoted ==
    op = "WeatherTime::parse" =>
        LET trimmed == Trim(args.time_str)
        IN  /\ IsOk(ret) => (Hour24(ret.val) \in 0..23 /\ Minute(ret.val) \in 0..59)
            /\ \A h \in 1..12, m \in 0..59, p \in ClaimMeridiems :
                  /\ trimmed \in {Pad2(h) \o <<":">> \o Pad2(m) \o <<" ">> \o p,
                                  NatChars(h) \o <<":">> \o Pad2(m) \o <<" ">> \o p} =>
                        (IsOk(ret) /\ Hour24(ret.val) = ClaimHourOf(h, p) /\ Minute(ret.val) = m)
                  /\ (trimmed \in {Pad2(h) \o <<":">> \o Pad2(m) \o p,
                                   NatChars(h) \o <<":">> \o Pad2(m) \o p} /\ IsOk(ret)) =>
                        (Hour24(ret.val) = ClaimHourOf(h, p) /\ Minute(ret.val) = m)
            /\ ClaimIsHHmm(trimmed) =>
                  LET h == DigitVal(trimmed[1]) * 10 + DigitVal(trimmed[2])
                      m == DigitVal(trimmed[4]) * 10 + DigitVal(trimmed[5])
                  IN  IF h > 23 \/ m > 59 THEN IsErr(ret)
                      ELSE IsOk(ret) /\ Hour24(ret.val) = h /\ Minute(ret.val) = m

\* "12:30 AM", the reading where the hour written and the hour of the day differ most
C17_Witness ==
    /\ op = "WeatherTime::parse"
    /\ args.time_str = <<"1", "2", ":", "3", "0", " ", "A", "M">>
    /\ ret = Ok([hour |-> 0, minute |-> 30, second |-> 0])

\* the examples of the tests: "06:30 PM" is 18:30, "18:45" is 18:45, "25:00" and
\* "12:60" are refused
C17_ExamplePm ==
    op = "WeatherTime::parse" /\ args.time_str = <<"0", "6", ":", "3", "0", " ", "P", "M">> /\ ret = Ok([hour |-> 18, minute |-> 30, second |-> 0])
C17_Example24 ==
    op = "WeatherTime::parse" /\ args.time_str = <<"1", "8", ":", "4", "5">> /\ ret = Ok([hour |-> 18, minute |-> 45, second |-> 0])
C17_ExampleHour25 == op = "WeatherTime::parse" /\ args.time_str = <<"2", "5", ":", "0", "0">> /\ IsErr(ret)
C17_ExampleMinute60 == op = "WeatherTime::parse" /\ args.time_str = <<"1", "2", ":", "6", "0">> /\ IsErr(ret)


\* the four formats in each of the 24 orders they can be tried in
ClaimOrders == {[i \in 1..4 |-> TimeFormats[p[i]]] : p \in Permutations(1..4)}

\* what the i-th format alone makes of the trimmed text
ClaimAttempt(text, i) == TimeParse(Trim(text), TimeFormats[i])

\* the texts two formats both accept: zero-padded 12-hour texts with a space, which
\* the first and the fourth format accept, and no others
FormatsOverlap ==
    op = "WeatherTime::parse" =>
        \A i \in 1..4, j \in 1..4 :
            (i < j /\ IsSome(ClaimAttempt(args.time_str, i)) /\ IsSome(ClaimAttempt(args.time_str, j))) =>
                (i = 1 /\ j = 4 /\ ClaimPadded12Space(Trim(args.time_str)))

\* C18: the four format attempts of WeatherTime::parse do not conflict: no text is
\* accepted by two different formats with different resulting times, so the result
\* of parse, success or failure and the hour and minute, is the same for every
\* order of the four attempts.
C18_OrderIndependent ==
    op = "WeatherTime::parse" =>
        /\ \A order \in ClaimOrders : FirstFormat(Trim(args.time_str), order) = ret
        /\ \A i \in 1..4, j \in 1..4 :
              (IsSome(ClaimAttempt(args.time_str, i)) /\ IsSome(ClaimAttempt(args.time_str, j))) =>
                  ClaimAttempt(args.time_str, i) = ClaimAttempt(args.time_str, j)

\* "06:30 PM", which the first and the fourth format both accept, parsed as 18:30
C18_Witness ==
    /\ op = "WeatherTime::parse"
    /\ args.time_str = <<"0", "6", ":", "3", "0", " ", "P", "M">>
    /\ IsSome(ClaimAttempt(args.time_str, 1))
    /\ IsSome(ClaimAttempt(args.time_str, 4))
    /\ ret = Ok([hour |-> 18, minute |-> 30, second |-> 0])


\* the "date time" texts of the hourly entries: whether the text has a second
\* space-separated piece, and the hour and minute written in it when it is a time
ClaimHourlyTime(text) ==
    CASE text = <<"2", "0", "2", "3", "-", "0", "1", "-", "1", "3", " ", "1", "4", ":", "0", "0">> -> [second |-> TRUE, time |-> Some(<<14, 0>>)]
      [] text = <<"2", "0", "2", "3", "-", "0", "1", "-", "1", "3", " ", "0", "0", ":", "3", "0">> -> [second |-> TRUE, time |-> Some(<<0, 30>>)]
      [] text = <<"2", "0", "2", "3", "-", "0", "1", "-", "1", "3", " ", "0", "5", ":", "0", "0">> -> [second |-> TRUE, time |-> Some(<<5, 0>>)]
      [] text = <<"2", "0", "2", "3", "-", "0", "1", "-", "1", "3", " ", "1", "3", ":", "0", "0">> -> [second |-> TRUE, time |-> Some(<<13, 0>>)]
      [] text = <<"2", "0", "2", "3", "-", "0", "1", "-", "1", "3", " ", "2", "3", ":", "0", "0">> -> [second |-> TRUE, time |-> Some(<<23, 0>>)]
      [] text = <<"2", "0", "2", "3", "-", "0", "1", "-", "1", "3", " ", "0", "6", ":", "3", "0", " ", "P", "M">> -> [second |-> TRUE, time |-> Some(<<6, 30>>)]
      [] text = <<"2", "0", "2", "3", "-", "0", "1", "-", "1", "3", " ", "2", "5", ":", "0", "0">> -> [second |-> TRUE, time |-> None]
      [] text = <<"2", "0", "2", "3", "-", "0", "1", "-", "1", "3", " ", "6", ":", "0", "0">> -> [second |-> TRUE, time |-> None]
      [] text = <<"2", "0", "2", "3", "-", "0", "1", "-", "1", "3", " ", " ", "1", "4", ":", "0", "0">> -> [second |-> TRUE, time |-> None]
      [] text = <<"2", "0", "2", "3", "-", "0", "1", "-", "1", "3">> -> [second |-> FALSE, time |-> None]

\* C19: the conversion of an hourly entry takes the time of day from the second
\* space-separated piece of the entry's "date time" text and parses it as a
\* WeatherTime; it fails when the text has no second piece or when that piece is
\* not a time, and on success hour24 is the hour written in that piece.
C19_HourlyTimeToken ==
    op = "HourlyWeather::try_from" =>
        LET written == ClaimHourlyTime(args.time)
        IN  /\ ~written.second => (IsErr(ret) /\ ret.chain[1] = "Invalid time format")
            /\ (written.second /\ ~IsSome(written.time)) =>
                  (IsErr(ret) /\ ret.chain[1] = "Failed to parse time")
            /\ IsSome(written.time) =>
                  /\ IsErr(ret) => ret.chain[1] \notin {"Invalid time format", "Failed to parse time"}
                  /\ IsOk(ret) =>
                        /\ Hour24(ret.val.time) = Unwrap(written.time)[1]
                        /\ Minute(ret.val.time) = Unwrap(written.time)[2]

\* "2023-01-13 06:30 PM": the second piece is "06:30", and the entry is at hour 6
C19_Witness ==
    /\ op = "HourlyWeather::try_from"
    /\ args.time = <<"2", "0", "2", "3", "-", "0", "1", "-", "1", "3", " ", "0", "6", ":", "3", "0", " ", "P", "M">>
    /\ IsOk(ret)
    /\ Hour24(ret.val.time) = 6

\* a text with no second piece is refused
C19_NoSecondPiece ==
    /\ op = "HourlyWeather::try_from"
    /\ args.time = <<"2", "0", "2", "3", "-", "0", "1", "-", "1", "3">>
    /\ IsErr(ret)
    /\ ret.chain[1] = "Invalid time format"


\* a text that is empty or holds nothing but whitespace
ClaimBlank(text) == \A i \in 1..Len(text) : text[i] \in {" ", "\t", "\n"}

\* C20: Location::new turns a name that is empty or only whitespace into the literal
\* "Unknown" and keeps every other name unchanged, so the display form of a
\* Location is never empty or only whitespace.
C20_LocationFallback ==
    /\ op = "Location::new" =>
          ret = Ok(IF ClaimBlank(args.name) THEN <<"U", "n", "k", "n", "o", "w", "n">> ELSE args.name)
    /\ op = "Location::to_string" =>
          /\ ~ClaimBlank(ret.val)
          /\ ret.val = args.self
    /\ (op = "WeatherData::try_from" /\ IsOk(ret)) =>
          ret.val.location = IF ClaimBlank(args.location.name) THEN <<"U", "n", "k", "n", "o", "w", "n">>
                             ELSE args.location.name

\* a name of whitespace only has become "Unknown" and is displayed so
C20_Witness ==
    /\ op = "Location::to_string"
    /\ args.self = <<"U", "n", "k", "n", "o", "w", "n">>
    /\ ret = Ok(<<"U", "n", "k", "n", "o", "w", "n">>)

\* a name with whitespace around it is kept as it is
C20_NameKept == op = "Location::new" /\ args.name = <<" ", "W", "e", "l", "l", "i", "n", "g", "t", "o", "n", " ">> /\ ret = Ok(<<" ", "W", "e", "l", "l", "i", "n", "g", "t", "o", "n", " ">>)

\* a name of whitespace only is replaced
C20_BlankReplaced == op = "Location::new" /\ args.name = <<" ", "\t", "\n", " ">> /\ ret = Ok(<<"U", "n", "k", "n", "o", "w", "n">>)



\* C21: build fails with "Sustained wind speed is required" whenever sustained was
\* never set, gusts set or not; with sustained set it returns what with_gusts
\* returns for the two fields: an error iff a value is above 500 or the gusts are
\* below sustained, and otherwise a WindSpeed holding exactly the two fields.
C21_BuilderRequiresSustained ==
    op = "WindSpeedBuilder::build" =>
        IF ~IsSome(args.sustained)
        THEN ret = Err("Sustained wind speed is required")
        ELSE LET s == Unwrap(args.sustained)
             IN  /\ ret = WindSpeedWithGusts(s, args.gusts)
                 /\ IsErr(ret) <=>
                       \/ s > 500
                       \/ IsSome(args.gusts) /\ (Unwrap(args.gusts) > 500 \/ Unwrap(args.gusts) < s)
                 /\ IsOk(ret) => ret.val = [sustained |-> s, gusts |-> args.gusts]

\* gusts were set and sustained was not: the build is refused
C21_Witness ==
    /\ op = "WindSpeedBuilder::build"
    /\ args.sustained = None
    /\ IsSome(args.gusts)
    /\ ret = Err("Sustained wind speed is required")

\* both were set: the build is the WindSpeed with_gusts makes of them
C21_Built ==
    /\ op = "WindSpeedBuilder::build"
    /\ args = [sustained |-> Some(20), gusts |-> Some(51)]
    /\ ret = Ok([sustained |-> 20, gusts |-> Some(51)])

\* sustained was set and the gusts are below it: with_gusts's error comes back
C21_GustsBelow ==
    /\ op = "WindSpeedBuilder::build"
    /\ IsSome(args.sustained)
    /\ ret = Err("Wind gusts cannot be less than sustained wind")


\* C22: Humidity::new(v) succeeds iff 0 <= v <= 100; as_int of every Humidity
\* that was built is v rounded to the nearest integer, halves away from zero, and
\* so lies in 0..100; in the conversion of a current block as_int is the raw
\* integer.
C22_HumidityRounded ==
    /\ op = "Humidity::new" =>
          (IsOk(ret) <=> (args.value # NaN /\ 0 <= args.value /\ args.value <= 1000))
    /\ op = "Humidity::as_int" =>
          /\ args.self # NaN
          /\ ret.val = ClaimRound(args.self)
          /\ ret.val \in 0..100
    /\ (op = "CurrentWeather::try_from" /\ IsOk(ret)) =>
          HumidityAsInt(ret.val.humidity) = args.humidity

\* the same with NaN set aside: every number is accepted iff it lies in 0..100 and
\* is shown rounded, and the conversion shows the raw integer
HumidityRoundedOnNumbers ==
    /\ (op = "Humidity::new" /\ args.value # NaN) =>
          /\ IsOk(ret) <=> (0 <= args.value /\ args.value <= 1000)
          /\ IsOk(ret) => ret.val = args.value
    /\ (op = "Humidity::as_int" /\ args.self # NaN) =>
          /\ ret.val = ClaimRound(args.self)
          /\ ret.val \in 0..100
    /\ (op = "CurrentWeather::try_from" /\ IsOk(ret)) =>
          /\ HumidityAsInt(ret.val.humidity) = args.humidity
          /\ args.humidity \in 0..100
    /\ (op = "CurrentWeather::try_from" /\ (args.humidity < 0 \/ args.humidity > 100)) => IsErr(ret)

\* NaN is accepted, and shown as 0
HumidityNaNAccepted == op = "Humidity::as_int" /\ args.self = NaN /\ ret = Ok(0)

\* 99.5 is accepted and shown as 100; 0.5 is shown as 1
HumidityHalfUp == op = "Humidity::as_int" /\ args.self = 995 /\ ret = Ok(100)


\* one temperature field of a conversion: the float raw, the context a refusal
\* carries, and the Temperature stored when the conversion succeeds
ClaimTemperatureRounded(raw, context, stored) ==
    /\ ret.kind \in {"ok", "err"}
    /\ ClaimRound(raw) \notin -40..55 => IsErr(ret)
    /\ (IsErr(ret) /\ ret.chain[1] = context) => ClaimRound(raw) \notin -40..55
    /\ IsOk(ret) => (ret.val[stored] = ClaimRound(raw) /\ ret.val[stored] \in -40..55)

\* C23: in the conversion a floating temperature (temp_c, feelslike_c) is rounded
\* to the nearest integer, halves away from zero, before the range check: the
\* conversion stores the rounded value, and refuses the field exactly when the
\* rounded value is outside -40..55.
C23_RoundedBeforeRange ==
    /\ op = "CurrentWeather::try_from" =>
          /\ ClaimTemperatureRounded(args.temp_c, "Temperature out of range", "temperature")
          /\ ClaimTemperatureRounded(args.feelslike_c, "Feels like temperature out of range",
                                     "feels_like")
    /\ op = "HourlyWeather::try_from" =>
          ClaimTemperatureRounded(args.temp_c, "Temperature out of range", "temperature")

\* 55.4 is accepted as 55
C23_Witness ==
    /\ op = "CurrentWeather::try_from"
    /\ args.temp_c = 554
    /\ IsOk(ret)
    /\ ret.val.temperature = 55

\* 55.5 rounds to 56 and is refused
C23_UpperHalfRefused ==
    /\ op = "CurrentWeather::try_from"
    /\ args.temp_c = 555
    /\ IsErr(ret)
    /\ ret.chain[1] = "Temperature out of range"

\* -40.4 is accepted as -40, as a feels-like temperature too
C23_LowerAccepted ==
    /\ op = "CurrentWeather::try_from"
    /\ args.feelslike_c = -404
    /\ IsOk(ret)
    /\ ret.val.feels_like = -40

\* -40.5 rounds to -41 and is refused
C23_LowerHalfRefused ==
    /\ op = "HourlyWeather::try_from"
    /\ args.temp_c = -405
    /\ IsErr(ret)
    /\ ret.chain[1] = "Temperature out of range"

\* 18.5 converts to 19
C23_HalfUp ==
    /\ op = "HourlyWeather::try_from"
    /\ args.temp_c = 185
    /\ IsOk(ret)
    /\ ret.val.temperature = 19


\* C24: every WindDirection holds one of the sixteen upper-case abbreviations:
\* from_compass stores the upper-cased form of the token it accepts, the display
\* form is the stored text, and each of the sixteen abbreviations comes back from
\* from_compass as itself.  The directions inside converted documents are built by
\* from_compass and are among the sixteen as well.
C24_CanonicalDirection ==
    /\ (op = "WindDirection::from_compass" /\ IsOk(ret)) =>
          /\ ret.val \in ClaimCompassPoints
          /\ ret.val = ToUppercase(args.compass)
    /\ (op = "WindDirection::from_compass" /\ args.compass \in ClaimCompassPoints) =>
          ret = Ok(args.compass)
    /\ op = "WindDirection::to_string" =>
          /\ args.self \in ClaimCompassPoints
          /\ ret = Ok(args.self)
    /\ (op \in {"CurrentWeather::try_from", "HourlyWeather::try_from"} /\ IsOk(ret)) =>
          /\ ret.val.wind_direction \in ClaimCompassPoints
          /\ ret.val.wind_direction = ToUppercase(args.wind_dir)

\* the WindDirection that from_compass("w") builds holds W and displays as "W"
C24_Witness ==
    /\ op = "WindDirection::to_string"
    /\ args.self = <<"W">>
    /\ ret = Ok(<<"W">>)

\* a lower-case token is stored upper-cased
C24_LowerCaseStoredUpper ==
    /\ op = "WindDirection::from_compass"
    /\ args.compass = <<"n", "n", "w">>
    /\ ret = Ok(<<"N", "N", "W">>)

\* the conversion of a current block stores the upper-cased direction too
C24_ConvertedUpper ==
    /\ op = "CurrentWeather::try_from"
    /\ args.wind_dir = <<"n", "w">>
    /\ IsOk(ret)
    /\ ret.val.wind_direction = <<"N", "W">>


\* the location a run asks for
ClaimRequested(a) == IF a.argument.given THEN a.argument.text ELSE <<"W", "e", "l", "l", "i", "n", "g", "t", "o", "n">>

\* the message of the failure a run meets, if it meets one: no API key, then a
\* transport error or a status other than 200, then a body that is no document,
\* then a document the conversion refuses
ClaimFailure(a) ==
    IF ~IsSome(a.api_key) THEN Some("WEATHER_API_KEY environment variable not set")
    ELSE IF a.http.kind = "transport" \/ a.http.status >= 400 THEN Some("Failed to send request")
    ELSE IF a.http.status # 200 THEN Some("Weather API returned error status")
    ELSE IF ~IsSome(a.http.json) THEN Some("Failed to parse JSON response from weather API")
    ELSE IF IsErr(WeatherDataFromApi(Unwrap(a.http.json), FALSE))
    THEN Some("Failed to convert API response to domain model")
    ELSE None

\* what a run that ended printed: one output, the error output when the run met
\* a failure and the weather output when it did not
ClaimOneOutput ==
    /\ Len(ret.stdout) = 1
    /\ IF IsSome(ClaimFailure(args))
       THEN /\ ret.stdout[1].text = [template |-> "-- Weather unavailable"]
            /\ ret.stdout[1].tooltip.location = ClaimRequested(args)
            /\ ret.stdout[1].tooltip.error = Unwrap(ClaimFailure(args))
       ELSE /\ ret.stdout[1].text.template = "{} {}/ {} {}"
            /\ ret.stdout[1].text.temperature = ClaimRound(Unwrap(args.http.json).current.temp_c)
            /\ "error" \notin DOMAIN ret.stdout[1].tooltip

\* C25: every run of main prints exactly one Waybar output and returns success:
\* the error output (text "Weather unavailable", tooltip with the requested
\* location and the error message) when client creation or fetch_weather fails,
\* the weather output otherwise, never both and never neither.
C25_OneOutputThenSuccess ==
    op = "main" => (ret.kind = "ok" /\ ClaimOneOutput)

\* what does hold: a run that returns has printed exactly one output, the right one
MainOneOutputWhenReturned ==
    (op = "main" /\ ret.kind = "ok") => ClaimOneOutput

\* a run ends in a panic, with nothing printed, only on an argument that is not
\* valid Unicode or on a localtime whose hour is within 11 of the largest u32
MainPanicsOnlyOnArgumentOrHour ==
    (op = "main" /\ ret.kind # "ok") =>
        /\ ret.kind = "panic"
        /\ ret.stdout = <<>>
        /\ \/ args.argument.given /\ ~args.argument.unicode
           \/ /\ ClaimFailure(args) = None
              /\ IsSome(Unwrap(args.http.json).forecast)
              /\ Unwrap(Unwrap(args.http.json).forecast) # <<>>
              /\ LocationLocalHour(Unwrap(args.http.json).location.localtime) > U32Max - 11

\* a run that met a transport error printed the error output and returned
MainErrorOutput ==
    /\ op = "main"
    /\ args.http.kind = "transport"
    /\ IsSome(args.api_key)
    /\ ret.kind = "ok"
    /\ ret.stdout[1].tooltip.error = "Failed to send request"

\* a run that fetched a document printed the weather output and returned
MainWeatherOutput ==
    /\ op = "main"
    /\ ret.kind = "ok"
    /\ ret.stdout[1].text.template = "{} {}/ {} {}"

\* a run with a readable argument that printed nothing: the process panicked
\* inside the conversion of the document it fetched
MainPanicsInConversion ==
    /\ op = "main"
    /\ args.argument.unicode
    /\ ret.kind = "panic"
    /\ ret.stdout = <<>>


\* C26: solar_noon never returns an error for an Astronomy built from two parsed
\* times: the hour it computes is in 0..23 and the minute in 0..59, so the "HH:MM"
\* text it composes parses again, and the tooltip always shows the computed solar
\* noon, never the sunrise in its place.
C26_SolarNoonNeverFails ==
    /\ op = "Astronomy::solar_noon" =>
          /\ IsOk(ret)
          /\ ret.val.hour \in 0..23
          /\ ret.val.minute \in 0..59
          /\ WeatherTimeParse(Pad2(ret.val.hour) \o <<":">> \o Pad2(ret.val.minute)) = ret
    /\ (op = "WaybarFormatter::format" /\ IsSome(ret.val.tooltip.astronomy_info)) =>
          LET ast == Unwrap(Unwrap(args.weather_data.weather_day).astronomy)
              sunrise == ClaimSeconds(ast.sunrise)
              sunset == ClaimSeconds(ast.sunset)
              noon == IF sunset >= sunrise THEN sunrise + (sunset - sunrise) \div 2
                      ELSE (sunrise + ((86400 - sunrise) + sunset) \div 2) % 86400
          IN  Unwrap(ret.val.tooltip.astronomy_info).solar_noon =
                  [hour |-> noon \div 3600, minute |-> (noon % 3600) \div 60, second |-> 0]

\* the latest sunrise and the earliest sunset: the midpoint wraps past midnight
\* and lands in the last minute of the day
C26_Witness ==
    /\ op = "Astronomy::solar_noon"
    /\ args.self.sunrise = [hour |-> 23, minute |-> 59, second |-> 0]
    /\ args.self.sunset = [hour |-> 0, minute |-> 0, second |-> 0]
    /\ ret = Ok([hour |-> 23, minute |-> 59, second |-> 0])

\* a tooltip with astronomy shows a solar noon that differs from the sunrise
C26_Rendered ==
    /\ op = "WaybarFormatter::format"
    /\ IsSome(ret.val.tooltip.astronomy_info)
    /\ Unwrap(ret.val.tooltip.astronomy_info).solar_noon = [hour |-> 12, minute |-> 30, second |-> 0]
    /\ Unwrap(ret.val.tooltip.astronomy_info).sunrise = [hour |-> 6, minute |-> 30, second |-> 0]

\* a tooltip for a sunset before the sunrise
C26_RenderedWrapped ==
    /\ op = "WaybarFormatter::format"
    /\ IsSome(ret.val.tooltip.astronomy_info)
    /\ Unwrap(ret.val.tooltip.astronomy_info).sunrise = [hour |-> 23, minute |-> 59, second |-> 0]
    /\ Unwrap(ret.val.tooltip.astronomy_info).solar_noon = [hour |-> 23, minute |-> 59, second |-> 0]


\* the hourly entries of the forecast day a response is converted from
ClaimDayHours(value) ==
    IF IsSome(value.forecast) /\ Unwrap(value.forecast) # <<>>
    THEN Unwrap(value.forecast)[1].hour
    ELSE <<>>

\* C27: the hourly entries are converted before the window is applied: an entry
\* that fails to convert makes the whole conversion fail wherever its hour lies,
\* inside the window or outside it; it is never dropped by the filter.
C27_ValidatedBeforeFilter ==
    (op = "WeatherData::try_from"
     /\ \E i \in 1..Len(ClaimDayHours(args)) : ~IsOk(HourlyFromApi(ClaimDayHours(args)[i]))) =>
        /\ IsErr(ret)
        /\ ret.chain[1] \in {"Failed to parse current conditions", "Failed to parse weather day data"}
        /\ (ret.chain[1] = "Failed to parse weather day data"
            /\ ret.chain[2] # "Failed to parse astronomy data") =>
               ret.chain[2] = "Failed to parse hourly weather data"

\* the local hour is 14 and the only entry, at 05:00, has a temperature out of
\* range: the window would not keep it, and the conversion fails on it
C27_Witness ==
    /\ op = "WeatherData::try_from"
    /\ ClaimLocalHour(args.location.localtime) = 14
    /\ Len(ClaimDayHours(args)) = 1
    /\ ClaimDayHours(args)[1].time = <<"2", "0", "2", "3", "-", "0", "1", "-", "1", "3", " ", "0", "5", ":", "0", "0">>
    /\ ClaimDayHours(args)[1].temp_c = 9990
    /\ IsErr(ret)
    /\ ret.chain = <<"Failed to parse weather day data", "Failed to parse hourly weather data",
                     "Temperature out of range", "outside valid range">>

\* the same entry behind one the window keeps: the conversion fails all the same
C27_AfterKeptEntry ==
    /\ op = "WeatherData::try_from"
    /\ ClaimLocalHour(args.location.localtime) = 14
    /\ Len(ClaimDayHours(args)) = 2
    /\ ClaimDayHours(args)[1].time = <<"2", "0", "2", "3", "-", "0", "1", "-", "1", "3", " ", "1", "4", ":", "0", "0">>
    /\ ClaimDayHours(args)[2].temp_c = 9990
    /\ IsErr(ret)
    /\ ret.chain[2] = "Failed to parse hourly weather data"


\* the messages of an error, from the outermost context to the cause
ClaimMessages(r) == {r.chain[i] : i \in 1..Len(r.chain)}

\* C28: the conversion never fails because gusts are lower than the sustained
\* wind: with the rounded sustained speed at most 500, a rounded gust at or below
\* it is dropped and the wind converts, so a converted WindSpeed with gusts has
\* them strictly above sustained; a negative raw speed is taken as 0, not refused.
C28_LowGustsDropped ==
    op \in {"CurrentWeather::try_from", "HourlyWeather::try_from"} =>
        LET s == ClaimRoundNonNeg(args.wind_kph)
            g == ClaimRoundNonNeg(args.gust_kph)
            wind_failed == IsErr(ret) /\ ret.chain[1] \in {"Invalid wind data", "Wind speed out of range"}
        IN  /\ IsErr(ret) => "Wind gusts cannot be less than sustained wind" \notin ClaimMessages(ret)
            /\ (s <= 500 /\ g <= s) => ~wind_failed
            /\ wind_failed => (s > 500 \/ g > 500)
            /\ IsOk(ret) =>
                  /\ ret.val.wind_speed.sustained = s
                  /\ g <= s => ret.val.wind_speed.gusts = None
                  /\ IsSome(ret.val.wind_speed.gusts) =>
                        Unwrap(ret.val.wind_speed.gusts) > ret.val.wind_speed.sustained

\* gusts of 0 under a wind of 15.1: dropped, and the block converts
C28_Witness ==
    /\ op = "CurrentWeather::try_from"
    /\ args.wind_kph = 151
    /\ args.gust_kph = 0
    /\ IsOk(ret)
    /\ ret.val.wind_speed = [sustained |-> 15, gusts |-> None]

\* a negative wind and a negative gust are both taken as 0
C28_NegativeClamped ==
    /\ op = "CurrentWeather::try_from"
    /\ args.wind_kph = -30
    /\ args.gust_kph = -30
    /\ IsOk(ret)
    /\ ret.val.wind_speed = [sustained |-> 0, gusts |-> None]

\* an hourly entry whose gusts round to the sustained speed: dropped as well
C28_EqualDropped ==
    /\ op = "HourlyWeather::try_from"
    /\ args.wind_kph = 250
    /\ args.gust_kph = 254
    /\ IsOk(ret)
    /\ ret.val.wind_speed = [sustained |-> 25, gusts |-> None]


\* C29: for a valid temperature t and humidity h the dew point is itself a valid
\* temperature, in -40..55, and never above t; it equals t exactly when round(h)
\* is at least 96 or the formula's result would fall below -40.  The tooltip's
\* dew point is one such value.
C29_DewPointValid ==
    /\ op = "Humidity::dew_point" =>
          LET t == args.temperature
              r == ClaimRound(args.self)
              formula == t - ((100 - r) \div 5)
          IN  /\ IsOk(ret)
              /\ ret.val \in -40..55
              /\ ret.val <= t
              /\ (ret.val = t) <=> (r >= 96 \/ formula < -40)
    /\ op = "WaybarFormatter::format" =>
          /\ ret.val.tooltip.dew_point \in -40..55
          /\ ret.val.tooltip.dew_point <= ret.val.tooltip.temperature

\* a humidity that rounds to 96: the dew point is the temperature
C29_Witness ==
    /\ op = "Humidity::dew_point"
    /\ args.self = 955
    /\ args.temperature = 20
    /\ ret = Ok(20)

\* a humidity that rounds to 95: the dew point is one degree lower
C29_OneBelow ==
    /\ op = "Humidity::dew_point"
    /\ args.self = 954
    /\ args.temperature = 20
    /\ ret = Ok(19)

\* the formula falls below -40: the dew point is the temperature
C29_FallsBelow ==
    /\ op = "Humidity::dew_point"
    /\ args.self = 0
    /\ args.temperature = -21
    /\ ret = Ok(-21)

\* the tooltip of the test document: 20 degrees at 60 percent shows 12
C29_Tooltip ==
    /\ op = "WaybarFormatter::format"
    /\ ret.val.tooltip.temperature = 20
    /\ ret.val.tooltip.humidity = 60
    /\ ret.val.tooltip.dew_point = 12


\* C30: for every localtime text the upper bound min(current_hour + 11, 23) of the
\* window is computed without overflowing the u32 hour: the conversion ends in a
\* WeatherData or an error for every parsed hour, the retained list being empty
\* for hours of 24 and more, the hours near the largest u32 included.
C30_HourBoundNoOverflow ==
    /\ (op = "WeatherData::try_from" /\ IsOk(CurrentFromApi(args.current))
        /\ IsOk(DayOption(FirstDay(args.forecast)))) =>
          /\ IsOk(ret)
          /\ (IsSome(ret.val.weather_day) /\ ClaimLocalHour(args.location.localtime) >= 24) =>
                Unwrap(ret.val.weather_day).hourly_weather = <<>>
    /\ (op = "WeatherDay::filter_future_hours" /\ args.current_local_hour >= 24) =>
          /\ IsOk(ret)
          /\ ret.val.hourly_weather = <<>>

\* what does hold: up to the largest u32 less 11 the bound is computed and hours
\* of 24 and more leave nothing; above it a build without overflow checks wraps
\* and still leaves nothing
HourBoundBelowOverflow ==
    /\ (op = "WeatherData::try_from" /\ IsOk(CurrentFromApi(args.current))
        /\ IsOk(DayOption(FirstDay(args.forecast)))
        /\ (ClaimLocalHour(args.location.localtime) <= U32Max - 11 \/ ~IsSome(FirstDay(args.forecast)))) =>
          /\ IsOk(ret)
          /\ (IsSome(ret.val.weather_day) /\ ClaimLocalHour(args.location.localtime) >= 24) =>
                Unwrap(ret.val.weather_day).hourly_weather = <<>>
    /\ (op \in {"WeatherData::try_from", "WeatherDay::filter_future_hours"} /\ IsOk(ret)
        /\ (IF op = "WeatherData::try_from" THEN ClaimLocalHour(args.location.localtime)
            ELSE args.current_local_hour) > U32Max - 11) =>
          (IF op = "WeatherData::try_from"
           THEN IsSome(ret.val.weather_day) => Unwrap(ret.val.weather_day).hourly_weather = <<>>
           ELSE ret.val.hourly_weather = <<>>)

\* the largest hour: the conversion of a response with a forecast day panics
HourBoundOverflows ==
    /\ op = "WeatherData::try_from"
    /\ ClaimLocalHour(args.location.localtime) = U32Max
    /\ IsPanic(ret)
    /\ ret.msg = "attempt to add with overflow"

\* the same response in a build without overflow checks: converted, nothing retained
HourBoundWraps ==
    /\ op = "WeatherData::try_from"
    /\ ClaimLocalHour(args.location.localtime) = U32Max
    /\ IsOk(ret)
    /\ IsSome(ret.val.weather_day)
    /\ Unwrap(ret.val.weather_day).hourly_weather = <<>>

\* an hour of 24: converted, nothing retained
HourBoundPastDay ==
    /\ op = "WeatherData::try_from"
    /\ ClaimLocalHour(args.location.localtime) = 24
    /\ Len(ClaimDayHours(args)) >= 1
    /\ IsOk(ret)
    /\ Unwrap(ret.val.weather_day).hourly_weather = <<>>
====
